---- MODULE Spec2Model ----
(***************************************************************************)
(* HPL condition-and-strategy compiler of haros:                           *)
(*   - the strategy catalog (hypothesis_strategies.StrategyMap),           *)
(*   - the generated numeric strategy functions (RosIntStrategy.TMP),      *)
(*   - the condition compiler (test_generator.ConditionTransformer),       *)
(*   - the strategy compiler (test_generator.StrategyTransformer),         *)
(*   - the rendered field strategies and their modifiers,                  *)
(* and the launcher of the haros command line (haros.HarosLauncher).       *)
(*                                                                         *)
(* Text is modelled as a sequence of tokens; "/" and "_" are always tokens *)
(* of their own, so that str.replace("/", "_") acts on them, and Join      *)
(* turns a token sequence into the Python string it stands for.            *)
(***************************************************************************)
EXTENDS Integers, Sequences, FiniteSets, TLC

VARIABLES
    defaults,   \* StrategyMap.defaults :: {ros_type -> TopLevelStrategy}
    custom,     \* StrategyMap.custom   :: {msg_type -> [MsgStrategy]}
    last,       \* the last call on the catalog: operation, argument, result
    num,        \* one call of a generated numeric strategy function
    ct,         \* one ConditionTransformer and the result of its last gen
    strat,      \* one StrategyTransformer and the result of its last gen
    run,        \* one run of the statements a FieldStrategy renders
    hl          \* one HarosLauncher, its process and its data directory

vars == <<defaults, custom, last, num, ct, strat, run, hl>>

(***************************************************************************)
(* Bounds of the model.                                                    *)
(***************************************************************************)
\* make_custom is called at most MaxCustom times per message type
MaxCustom == 3
\* the fixed length of the fixed-length arrays of the schemas
MaxLen == 2
\* caller bounds lie at most Margin away from a natural bound of the type
Margin == 1
\* a field-access path has at most MaxLoops quantified loop segments
MaxLoops == 2
\* a set of an inclusion test has at most MaxSet members
MaxSet == 2
\* a drawn list of unknown length has at most MaxSize elements
MaxSize == 2
\* a FieldStrategy has at most MaxMods modifiers
MaxMods == 2

(***************************************************************************)
(* Python values                                                           *)
(***************************************************************************)
\* None is the empty sequence and a present value v the sequence <<v>>
None == <<>>
Some(v) == <<v>>

RECURSIVE Join(_)
Join(toks) == IF toks = <<>> THEN "" ELSE Head(toks) \o Join(Tail(toks))

\* str.replace(old, new) on a token sequence
str_replace(s, old, new) == [i \in 1..Len(s) |-> IF s[i] = old THEN new ELSE s[i]]

\* old in s
str_contains(s, tok) == \E i \in 1..Len(s) : s[i] = tok

(***************************************************************************)
(* Type names                                                              *)
(***************************************************************************)
RosIntTypes == {<<"char">>, <<"uint8">>, <<"byte">>, <<"int8">>, <<"uint16">>,
                <<"int16">>, <<"uint32">>, <<"int32">>, <<"uint64">>, <<"int64">>}

RosFloatTypes == {<<"float32">>, <<"float64">>}

std_msgs_Header == <<"std", "_", "msgs", "/", "Header">>

\* the message types of the schemas
pkg_Msg == <<"pkg", "/", "Msg">>
pkg_Msg_v1 == <<"pkg", "/", "Msg", "_", "v1">>
MsgTypes == {pkg_Msg, pkg_Msg_v1}

\* a message type no schema declares, and a primitive that does not exist
pkg_Other == <<"pkg", "/", "Other">>
int128 == <<"int128">>

(***************************************************************************)
(* Strategies                                                              *)
(***************************************************************************)
\* "{}_v{}".format(msg_type.replace("/", "_"), len(custom) + 1)
CustomName(msg_type, n) ==
    Join(str_replace(msg_type, "/", "_")) \o "_v" \o ToString(n)

\* a MsgStrategy whose default name keeps the "/" of the message type
MsgStrategyKeepSlash(msg_type, name) ==
    [kind |-> "MsgStrategy", msg_type |-> msg_type, fields |-> <<>>,
     name |-> IF name # None THEN name[1] ELSE Join(msg_type)]

\* MsgStrategy.__init__: no fields yet, _name is the given name or the
\* message type with "/" replaced by "_"
MsgStrategy(msg_type, name) ==
    [kind |-> "MsgStrategy", msg_type |-> msg_type, fields |-> <<>>,
     name |-> IF name # None THEN name[1]
              ELSE Join(str_replace(msg_type, "/", "_"))]

\* a built-in strategy named by its type alone
RosBuiltinStrategy_BareName(kind, ros_type) ==
    [kind |-> kind, ros_type |-> ros_type, name |-> Join(ros_type)]

\* RosBuiltinStrategy.__init__ and .name: "ros_" + ros_type
RosBuiltinStrategy(kind, ros_type) ==
    [kind |-> kind, ros_type |-> ros_type, name |-> "ros_" \o Join(ros_type)]

\* HeaderStrategy overrides name
HeaderStrategy ==
    [kind |-> "HeaderStrategy", ros_type |-> std_msgs_Header,
     name |-> "std_msgs_Header"]

\* FieldStrategy.__init__
FieldStrategy(field_name, strategy) ==
    [field_name |-> field_name, strategy |-> strategy, modifiers |-> <<>>]

Reuse(strategy_name) == [kind |-> "Reuse", strategy_name |-> strategy_name]

\* a from_ros_type that refers to a message type by its unchanged name
Reuse_from_ros_type_NoReplace(ros_type) ==
    IF str_contains(ros_type, "/") THEN Reuse(Join(ros_type))
    ELSE IF ros_type = <<"Header">> THEN Reuse("std_msgs_Header")
    ELSE Reuse("ros_" \o Join(ros_type))

\* Reuse.from_ros_type
Reuse_from_ros_type(ros_type) ==
    IF str_contains(ros_type, "/")
    THEN Reuse(Join(str_replace(ros_type, "/", "_")))
    ELSE IF ros_type = <<"Header">> THEN Reuse("std_msgs_Header")
    ELSE Reuse("ros_" \o Join(ros_type))

Arrays(base_strategy, length) ==
    [kind |-> "Arrays", base_strategy |-> base_strategy, length |-> length]

ByteArrays(length) == [kind |-> "ByteArrays", length |-> length]

(***************************************************************************)
(* Type tokens and schemas                                                 *)
(***************************************************************************)
TypeToken(ros_type) == [ros_type |-> ros_type, is_array |-> FALSE, length |-> None]

ArrayTypeToken(ros_type, length) ==
    [ros_type |-> ros_type, is_array |-> TRUE, length |-> length]

\* the field declarations a message type of a schema can have
FieldsBuiltin == [x |-> TypeToken(<<"int32">>), y |-> TypeToken(<<"Header">>)]
FieldsNested == [x |-> ArrayTypeToken(pkg_Msg, None),
                 d |-> ArrayTypeToken(<<"uint8">>, Some(MaxLen))]
FieldsUnknown == [x |-> ArrayTypeToken(<<"float64">>, Some(MaxLen)),
                  y |-> TypeToken(pkg_Other),
                  z |-> TypeToken(int128)]
FieldMaps == {FieldsBuiltin, FieldsNested, FieldsUnknown}

\* a Python value that is a dict, and one that is not
PyDict(items) == [py |-> "dict", items |-> items]
PyOther == [py |-> "int", items |-> <<>>]

\* {msg_type -> {field_name -> type_token}} for some of the message types
Schemas ==
    UNION {[S -> {PyDict(fm) : fm \in FieldMaps}] : S \in SUBSET MsgTypes \ {{}}}

\* arguments of make_defaults that are not such a mapping
Malformed ==
    {PyOther, PyDict([t \in {pkg_Msg, pkg_Msg_v1} |->
                        IF t = pkg_Msg THEN PyDict(FieldsBuiltin) ELSE PyOther])}

\* the schema of a topic of type std_msgs/Header, which lists the message
\* type with its declared fields
HeaderSchema ==
    PyDict([t \in {std_msgs_Header} |->
        PyDict([seq |-> TypeToken(<<"uint32">>), stamp |-> TypeToken(<<"time">>),
                frame_id |-> TypeToken(<<"string">>)])])

MsgData == {PyDict(s) : s \in Schemas} \cup {HeaderSchema} \cup Malformed

(***************************************************************************)
(* StrategyMap                                                             *)
(***************************************************************************)
\* StrategyMap._make_builtins
make_builtins ==
    LET keys == {<<"bool">>, <<"string">>, <<"time">>, <<"duration">>,
                 std_msgs_Header} \cup RosIntTypes \cup RosFloatTypes
    IN [t \in keys |->
          CASE t = <<"bool">> -> RosBuiltinStrategy("RosBoolStrategy", t)
            [] t = <<"string">> -> RosBuiltinStrategy("RosStringStrategy", t)
            [] t = <<"time">> -> RosBuiltinStrategy("RosTimeStrategy", t)
            [] t = <<"duration">> -> RosBuiltinStrategy("RosDurationStrategy", t)
            [] t = std_msgs_Header -> HeaderStrategy
            [] t \in RosIntTypes -> RosBuiltinStrategy("RosIntStrategy", t)
            [] t \in RosFloatTypes -> RosBuiltinStrategy("RosFloatStrategy", t)]

\* a _default that takes every fixed-length array for an array of bytes
default_BytesByLength(type_token) ==
    IF type_token.is_array /\ type_token.length # None
    THEN ByteArrays(type_token.length)
    ELSE LET strategy == Reuse_from_ros_type(type_token.ros_type)
         IN IF type_token.is_array
            THEN Arrays(strategy, type_token.length)
            ELSE strategy

\* StrategyMap._default
default(type_token) ==
    IF type_token.ros_type = <<"uint8">> /\ type_token.is_array
    THEN ByteArrays(type_token.length)
    ELSE LET strategy == Reuse_from_ros_type(type_token.ros_type)
         IN IF type_token.is_array
            THEN Arrays(strategy, type_token.length)
            ELSE strategy

\* the body of the outer loop of make_defaults: the default of one message type
default_msg_strategy(msg_type, data) ==
    [MsgStrategy(msg_type, None) EXCEPT
        !.fields = [f \in DOMAIN data |-> FieldStrategy(f, default(data[f]))]]

\* the isinstance test of make_defaults
is_schema(msg_data) ==
    /\ msg_data.py = "dict"
    /\ \A t \in DOMAIN msg_data.items : msg_data.items[t].py = "dict"

\* a make_defaults that tests each value when its turn comes, after the
\* entries before it have been stored
make_defaults_result_LateTest(msg_data) ==
    IF msg_data.py # "dict" THEN defaults
    ELSE LET good == {t \in DOMAIN msg_data.items : msg_data.items[t].py = "dict"}
         IN [t \in DOMAIN defaults \cup good |->
                IF t \in good
                THEN default_msg_strategy(t, msg_data.items[t].items)
                ELSE defaults[t]]

\* the catalog's defaults after make_defaults(msg_data)
make_defaults_result(msg_data) ==
    IF ~is_schema(msg_data) THEN defaults
    ELSE [t \in DOMAIN defaults \cup DOMAIN msg_data.items |->
            IF t \in DOMAIN msg_data.items
            THEN default_msg_strategy(t, msg_data.items[t].items)
            ELSE defaults[t]]

\* StrategyMap.make_defaults
make_defaults(msg_data) ==
    /\ defaults' = make_defaults_result(msg_data)
    /\ last' = [op |-> "make_defaults", arg |-> msg_data,
                ret |-> IF is_schema(msg_data) THEN "None" ELSE "TypeError"]
    /\ UNCHANGED <<custom, num, ct, strat, run, hl>>

\* self.custom.get(msg_type), an absent or empty list giving a new list
custom_get(msg_type) ==
    IF msg_type \in DOMAIN custom THEN custom[msg_type] ELSE <<>>

\* the strategy make_custom mints
make_custom_strategy(msg_type) ==
    MsgStrategy(msg_type, Some(CustomName(msg_type, Len(custom_get(msg_type)) + 1)))

\* a make_custom that stores the new variant over the last one
make_custom_list_Overwrite(msg_type) ==
    IF custom_get(msg_type) = <<>> THEN <<make_custom_strategy(msg_type)>>
    ELSE [custom_get(msg_type) EXCEPT ![Len(custom_get(msg_type))] =
            make_custom_strategy(msg_type)]

\* custom.append(strategy)
make_custom_list(msg_type) ==
    Append(custom_get(msg_type), make_custom_strategy(msg_type))

\* StrategyMap.make_custom
make_custom(msg_type) ==
    /\ Len(custom_get(msg_type)) < MaxCustom
    /\ custom' = [t \in DOMAIN custom \cup {msg_type} |->
                    IF t = msg_type THEN make_custom_list(msg_type) ELSE custom[t]]
    /\ last' = [op |-> "make_custom", arg |-> msg_type,
                ret |-> make_custom_strategy(msg_type)]
    /\ UNCHANGED <<defaults, num, ct, strat, run, hl>>

\* StrategyMap.__init__
Init ==
    /\ defaults = make_builtins
    /\ custom = <<>>
    /\ last = [op |-> "init", arg |-> None, ret |-> "None"]
    /\ num = None
    /\ ct = None
    /\ strat = None
    /\ run = None
    /\ hl = None

Next ==
    \/ \E msg_data \in MsgData : make_defaults(msg_data)
    \/ \E msg_type \in MsgTypes : make_custom(msg_type)

Spec == Init /\ [][Next]_vars

(***************************************************************************)
(* Properties of the strategy catalog                                      *)
(***************************************************************************)
\* the strategy names a field's strategy refers to
referenced_names(strategy) ==
    CASE strategy.kind = "Reuse" -> {strategy.strategy_name}
      [] strategy.kind = "Arrays" -> {strategy.base_strategy.strategy_name}
      [] OTHER -> {}

\* the names under which the catalog defines a strategy
defined_names == {defaults[t].name : t \in DOMAIN defaults}

\* the assertions of MsgStrategy.to_python, FieldStrategy.to_python,
\* Arrays.to_python and ByteArrays.to_python: the strategy renders
renders(strategy) ==
    /\ str_contains(strategy.msg_type, "/")
    /\ \A f \in DOMAIN strategy.fields :
          LET s == strategy.fields[f].strategy
          IN /\ s # None
             /\ s.kind \in {"Arrays", "ByteArrays"} /\ s.length # None
                    => s.length[1] >= 0

\* the primitive type names the catalog knows: the built-ins and the alias
\* "Header" that from_ros_type resolves
known_primitives == DOMAIN make_builtins \cup {<<"Header">>}

\* the types the fields of message type t of schema s are declared with
field_types(s, t) == {s[t].items[f].ros_type : f \in DOMAIN s[t].items}

\* the schema declares every message type its fields use
complete(s) ==
    \A t \in DOMAIN s : field_types(s, t) \subseteq known_primitives \cup DOMAIN s

RECURSIVE reach(_, _, _)
reach(s, from, n) ==
    IF n = 0 THEN from
    ELSE reach(s, from \cup UNION {field_types(s, u) : u \in from \cap DOMAIN s},
               n - 1)

\* no message type of the schema contains itself
non_recursive(s) ==
    \A t \in DOMAIN s : t \notin reach(s, field_types(s, t), Cardinality(DOMAIN s))

\* C1: the k-th make_custom for a message type T returns a new MsgStrategy
\* named <T with / replaced by _>_v<k>, which is then the last element of
\* custom[T]; the variants of T have pairwise distinct names that differ from
\* the name of T's default; and no step shrinks custom[T] or replaces one of
\* its elements, a step that changes custom appending exactly one variant.
C1_Names ==
    \A t \in DOMAIN custom : \A k \in 1..Len(custom[t]) :
        /\ custom[t][k].kind = "MsgStrategy"
        /\ custom[t][k].msg_type = t
        /\ custom[t][k].name =
              Join(str_replace(t, "/", "_")) \o "_v" \o ToString(k)
        /\ t \in DOMAIN defaults => custom[t][k].name # defaults[t].name
        /\ \A j \in 1..Len(custom[t]) :
              j # k => custom[t][j].name # custom[t][k].name

C1_Returned ==
    last.op = "make_custom" =>
        /\ last.arg \in DOMAIN custom
        /\ custom[last.arg] # <<>>
        /\ last.ret = custom[last.arg][Len(custom[last.arg])]

C1_Step ==
    /\ \A t \in DOMAIN custom :
          /\ t \in DOMAIN custom'
          /\ Len(custom'[t]) >= Len(custom[t])
          /\ SubSeq(custom'[t], 1, Len(custom[t])) = custom[t]
    /\ custom' # custom =>
          \E t \in DOMAIN custom' :
              /\ Len(custom'[t]) = Len(custom_get(t)) + 1
              /\ \A u \in DOMAIN custom' \ {t} :
                    u \in DOMAIN custom /\ custom'[u] = custom[u]

C1_MakeCustomAppends == [](C1_Names /\ C1_Returned) /\ [][C1_Step]_vars

\* a second variant of a message type that has a default has just been minted
C1_Witness ==
    /\ last.op = "make_custom"
    /\ last.arg \in DOMAIN defaults
    /\ Len(custom[last.arg]) >= 2

\* C2: the default of a message type is one strategy, identified by its name:
\* in every state the entry of message type T is a MsgStrategy for T whose name
\* is the name a by-name request for T (Reuse.from_ros_type) carries, and no
\* step (make_custom, make_defaults again) removes the entry or changes the
\* name, so two requests for T resolve to the same name and the same entry.
C2_Inv ==
    \A t \in MsgTypes \cap DOMAIN defaults :
        /\ defaults[t].kind = "MsgStrategy"
        /\ defaults[t].msg_type = t
        /\ defaults[t].name = Reuse_from_ros_type(t).strategy_name

C2_Step ==
    \A t \in MsgTypes \cap DOMAIN defaults :
        /\ t \in DOMAIN defaults'
        /\ defaults'[t].name = defaults[t].name
        /\ Reuse_from_ros_type(t).strategy_name = defaults'[t].name

C2_DefaultIsUnique == [](C2_Inv) /\ [][C2_Step]_vars

\* make_defaults has run again after variants of a declared type were minted
C2_Witness ==
    /\ last.op = "make_defaults"
    /\ last.ret = "None"
    /\ pkg_Msg \in DOMAIN last.arg.items
    /\ Len(custom_get(pkg_Msg)) >= 1

\* C3: after make_defaults of a complete, non-recursive schema every declared
\* message type has a default MsgStrategy with exactly one FieldStrategy per
\* declared field, each with a base strategy, every by-name reference of a
\* field names a strategy the catalog defines, and the default renders.
C3_Case ==
    /\ last.op = "make_defaults"
    /\ last.ret = "None"
    /\ complete(last.arg.items)
    /\ non_recursive(last.arg.items)

C3_DefaultsResolved ==
    C3_Case =>
        \A t \in DOMAIN last.arg.items :
            /\ t \in DOMAIN defaults
            /\ defaults[t].kind = "MsgStrategy"
            /\ defaults[t].msg_type = t
            /\ DOMAIN defaults[t].fields = DOMAIN last.arg.items[t].items
            /\ \A f \in DOMAIN defaults[t].fields :
                  /\ defaults[t].fields[f].field_name = f
                  /\ defaults[t].fields[f].strategy # None
                  /\ referenced_names(defaults[t].fields[f].strategy)
                        \subseteq defined_names
            /\ renders(defaults[t])

\* a schema of two types, one holding an array of the other, has been built
C3_Witness ==
    /\ C3_Case
    /\ DOMAIN last.arg.items = MsgTypes
    /\ last.arg.items[pkg_Msg_v1].items = FieldsNested
    /\ last.arg.items[pkg_Msg].items = FieldsBuiltin

\* C4: make_defaults raises for a field whose type is an unknown primitive or
\* a message type the catalog does not hold, and no field ever stores a
\* by-name reference to a strategy the catalog does not define.
C4_UnknownTypeIsFatal ==
    /\ \A t \in DOMAIN defaults :
          defaults[t].kind = "MsgStrategy" =>
              \A f \in DOMAIN defaults[t].fields :
                  referenced_names(defaults[t].fields[f].strategy)
                      \subseteq defined_names
    /\ (/\ last.op = "make_defaults"
        /\ is_schema(last.arg)
        /\ \E t \in DOMAIN last.arg.items :
              ~(field_types(last.arg.items, t)
                    \subseteq known_primitives \cup DOMAIN defaults))
          => last.ret \notin {"None"}

(***************************************************************************)
(* Python integers                                                         *)
(*                                                                         *)
(* The bounds of the 32 and 64 bit types exceed the integers of the model  *)
(* checker, so a Python integer n is the triple <<a, b, c>> with           *)
(* n = a * 2^60 + b * 2^30 + c and 0 <= b, c < 2^30; the order of the      *)
(* integers is the lexicographic order of the triples.                     *)
(***************************************************************************)
Limb == 2^30

\* the triple of an integer of the model checker
FromInt(n) ==
    IF n >= 0 THEN <<0, n \div Limb, n % Limb>>
    ELSE <<-1, Limb + (n \div Limb), n % Limb>>

\* 2^k, k < 90
Pow2(k) ==
    IF k < 30 THEN <<0, 0, 2^k>>
    ELSE IF k < 60 THEN <<0, 2^(k - 30), 0>>
    ELSE <<2^(k - 60), 0, 0>>

\* m < n
int_lt(m, n) ==
    \/ m[1] < n[1]
    \/ m[1] = n[1] /\ m[2] < n[2]
    \/ m[1] = n[1] /\ m[2] = n[2] /\ m[3] < n[3]

\* m <= n
int_le(m, n) == m = n \/ int_lt(m, n)

\* n + 1
int_succ(n) ==
    IF n[3] < Limb - 1 THEN <<n[1], n[2], n[3] + 1>>
    ELSE IF n[2] < Limb - 1 THEN <<n[1], n[2] + 1, 0>>
    ELSE <<n[1] + 1, 0, 0>>

\* n - 1
int_pred(n) ==
    IF n[3] > 0 THEN <<n[1], n[2], n[3] - 1>>
    ELSE IF n[2] > 0 THEN <<n[1], n[2] - 1, Limb - 1>>
    ELSE <<n[1] - 1, Limb - 1, Limb - 1>>

\* n + d for a small d
RECURSIVE int_shift(_, _)
int_shift(n, d) ==
    IF d = 0 THEN n
    ELSE IF d > 0 THEN int_shift(int_succ(n), d - 1)
    ELSE int_shift(int_pred(n), d + 1)

\* max(m, n) and min(m, n) of Python: the first of two equal arguments
py_max(m, n) == IF int_lt(m, n) THEN n ELSE m
py_min(m, n) == IF int_lt(n, m) THEN n ELSE m

(***************************************************************************)
(* The natural ranges of the integer types (ros_types)                     *)
(***************************************************************************)
INT8_MIN_VALUE == FromInt(-(2^7))
INT8_MAX_VALUE == FromInt(2^7 - 1)
INT16_MIN_VALUE == FromInt(-(2^15))
INT16_MAX_VALUE == FromInt(2^15 - 1)
INT32_MIN_VALUE == <<-1, Limb - 2, 0>>
INT32_MAX_VALUE == int_pred(Pow2(31))
INT64_MIN_VALUE == <<-(2^3), 0, 0>>
INT64_MAX_VALUE == int_pred(Pow2(63))
UINT8_MAX_VALUE == FromInt(2^8 - 1)
UINT16_MAX_VALUE == FromInt(2^16 - 1)
UINT32_MAX_VALUE == int_pred(Pow2(32))
UINT64_MAX_VALUE == int_pred(Pow2(64))

\* RosIntStrategy.TYPES
RosIntStrategy_TYPES(ros_type) ==
    CASE ros_type = <<"char">> -> <<FromInt(0), UINT8_MAX_VALUE>>
      [] ros_type = <<"uint8">> -> <<FromInt(0), UINT8_MAX_VALUE>>
      [] ros_type = <<"byte">> -> <<INT8_MIN_VALUE, INT8_MAX_VALUE>>
      [] ros_type = <<"int8">> -> <<INT8_MIN_VALUE, INT8_MAX_VALUE>>
      [] ros_type = <<"uint16">> -> <<FromInt(0), UINT16_MAX_VALUE>>
      [] ros_type = <<"int16">> -> <<INT16_MIN_VALUE, INT16_MAX_VALUE>>
      [] ros_type = <<"uint32">> -> <<FromInt(0), UINT32_MAX_VALUE>>
      [] ros_type = <<"int32">> -> <<INT32_MIN_VALUE, INT32_MAX_VALUE>>
      [] ros_type = <<"uint64">> -> <<FromInt(0), UINT64_MAX_VALUE>>
      [] ros_type = <<"int64">> -> <<INT64_MIN_VALUE, INT64_MAX_VALUE>>

(***************************************************************************)
(* The function ros_<int type> that RosIntStrategy.to_python renders       *)
(***************************************************************************)
\* the guard without its test of min_value > max_value
ros_int_out_of_bounds_NoOrderTest(minv, maxv, min_value, max_value) ==
    \/ int_le(min_value, minv)
    \/ int_le(maxv, min_value)
    \/ int_le(max_value, minv)
    \/ int_le(maxv, max_value)

\* the guard of the raise ValueError of RosIntStrategy.TMP, {min_value} and
\* {max_value} of the template being the natural bounds minv and maxv
ros_int_out_of_bounds(minv, maxv, min_value, max_value) ==
    \/ int_le(min_value, minv)
    \/ int_le(maxv, min_value)
    \/ int_le(max_value, minv)
    \/ int_le(maxv, max_value)
    \/ int_lt(max_value, min_value)

\* the arguments of integers(...) in RosIntStrategy.TMP
ros_int_drawn_range(minv, maxv, min_value, max_value) ==
    <<py_max(min_value, minv), py_min(max_value, maxv)>>

\* the value of a parameter of the rendered function: the argument, or the
\* default, which the template sets to the natural bound
parameter(arg, dflt) == IF arg = None THEN dflt ELSE arg[1]

\* the call ros_<ros_type>(min_value=..., max_value=...)
ros_int_call ==
    /\ num.pc = "call"
    /\ LET minv == RosIntStrategy_TYPES(num.ros_type)[1]
           maxv == RosIntStrategy_TYPES(num.ros_type)[2]
           min_value == parameter(num.min_arg, minv)
           max_value == parameter(num.max_arg, maxv)
       IN num' =
            IF ros_int_out_of_bounds(minv, maxv, min_value, max_value)
            THEN [num EXCEPT !.pc = "done", !.raised = TRUE]
            ELSE [num EXCEPT !.pc = "done",
                    !.drawn = Some(ros_int_drawn_range(minv, maxv,
                                                       min_value, max_value))]
    /\ UNCHANGED <<defaults, custom, last, ct, strat, run, hl>>

\* the bounds a caller passes: none (the default), or a value near a natural
\* bound of the type
caller_bounds(ros_type) ==
    {None} \cup
    {Some(int_shift(RosIntStrategy_TYPES(ros_type)[i], d)) :
        i \in {1, 2}, d \in -Margin..Margin}

InitNum ==
    /\ defaults = make_builtins
    /\ custom = <<>>
    /\ last = [op |-> "init", arg |-> None, ret |-> "None"]
    /\ ct = None
    /\ strat = None
    /\ run = None
    /\ hl = None
    /\ \E ros_type \in RosIntTypes :
         \E min_arg \in caller_bounds(ros_type) :
           \E max_arg \in caller_bounds(ros_type) :
              num = [pc |-> "call", ros_type |-> ros_type, min_arg |-> min_arg,
                     max_arg |-> max_arg, raised |-> FALSE, drawn |-> None]

NextNum == ros_int_call

SpecNum == InitNum /\ [][NextNum]_vars

\* the bounds of the finished call, and the natural bounds of its type
num_minv == RosIntStrategy_TYPES(num.ros_type)[1]
num_maxv == RosIntStrategy_TYPES(num.ros_type)[2]
num_min_value == parameter(num.min_arg, num_minv)
num_max_value == parameter(num.max_arg, num_maxv)

\* C5: the generated function raises only when min > max or when the caller
\* range does not overlap the natural range; a min at or below the natural
\* minimum and a max at or above the natural maximum are accepted, as is the
\* call with the default arguments.
C5_RaisesOnlyWhenDegenerate ==
    num.pc = "done" =>
        (num.raised <=>
            \/ int_lt(num_max_value, num_min_value)
            \/ int_lt(num_max_value, num_minv)
            \/ int_lt(num_maxv, num_min_value))

\* C6: the generated function either raises or draws from
\* [max(min, naturalMin), min(max, naturalMax)], and when it does not raise
\* that range is not empty and lies inside the natural range.
C6_ClampedRange ==
    num.pc = "done" /\ ~num.raised =>
        /\ num.drawn # None
        /\ LET lo == num.drawn[1][1]
               hi == num.drawn[1][2]
           IN /\ lo = (IF int_lt(num_min_value, num_minv)
                       THEN num_minv ELSE num_min_value)
              /\ hi = (IF int_lt(num_maxv, num_max_value)
                       THEN num_maxv ELSE num_max_value)
              /\ int_le(lo, hi)
              /\ int_le(num_minv, lo)
              /\ int_le(hi, num_maxv)

\* a call of a 64 bit type with both bounds given has returned a range
C6_Witness ==
    /\ num.pc = "done"
    /\ ~num.raised
    /\ num.ros_type = <<"int64">>
    /\ num.min_arg # None
    /\ num.max_arg # None
    /\ num.drawn # None

(***************************************************************************)
(* Text of the condition compiler                                          *)
(***************************************************************************)
\* sep.join(strings)
RECURSIVE str_join(_, _)
str_join(sep, strings) ==
    IF strings = <<>> THEN ""
    ELSE IF Len(strings) = 1 THEN strings[1]
    ELSE strings[1] \o sep \o str_join(sep, Tail(strings))

\* template.format(*args) on a template given as its tokens: the k-th
\* replacement field "{}" becomes the tokens of args[k], and the escaped
\* braces "{{}}" become the text "{}", a replacement field of the result
RECURSIVE str_format(_, _)
str_format(template, args) ==
    IF template = <<>> THEN <<>>
    ELSE IF Head(template) = "{}"
         THEN Head(args) \o str_format(Tail(template), Tail(args))
    ELSE IF Head(template) = "{{}}"
         THEN <<"{}">> \o str_format(Tail(template), args)
    ELSE <<Head(template)>> \o str_format(Tail(template), args)

(***************************************************************************)
(* Rendering of strategies                                                 *)
(***************************************************************************)
\* Reuse.from_strategy, for a top-level strategy
Reuse_from_strategy(strategy) == Reuse(strategy.name)

\* Reuse.to_python
Reuse_to_python(reuse, module) == <<reuse.strategy_name, "()">>

\* ByteArrays.to_python
ByteArrays_to_python(bytes, module) ==
    LET n == IF bytes.length = None THEN 256 ELSE bytes.length[1]
    IN str_format(<<"{}", ".binary(min_size=0, max_size=", "{}", ")">>,
                  <<<<module>>, <<ToString(n)>>>>)

\* Arrays.to_python, and the to_python of the strategy of a field; the
\* branch of an array of any length renders its elements without the module
RECURSIVE to_python(_, _)
Arrays_to_python(arrays, module) ==
    IF arrays.length = None
    THEN str_format(<<"{}", ".lists(elements=", "{}",
                      ", min_size=0, max_size=256)">>,
                    <<<<module>>, to_python(arrays.base_strategy, "strategies")>>)
    ELSE str_format(<<"{}", ".tuples(*[", "{}", " for i in xrange(", "{}",
                      ")])">>,
                    <<<<module>>, to_python(arrays.base_strategy, module),
                      <<ToString(arrays.length[1])>>>>)

to_python(strategy, module) ==
    CASE strategy.kind = "Reuse" -> Reuse_to_python(strategy, module)
      [] strategy.kind = "Arrays" -> Arrays_to_python(strategy, module)
      [] strategy.kind = "ByteArrays" -> ByteArrays_to_python(strategy, module)
      [] strategy.kind = "Integers" ->
            str_format(<<"{}", ".integers(min_value=", "{}", ", max_value=",
                         "{}", ")">>,
                       <<<<module>>, <<ToString(strategy.min_value)>>,
                         <<ToString(strategy.max_value)>>>>)

\* the name of the function that the to_python of a top-level strategy
\* defines: the name after "def " in the template of its class
to_python_name(strategy) ==
    CASE strategy.kind = "RosBoolStrategy" -> "ros_bool"
      [] strategy.kind = "RosStringStrategy" -> "ros_string"
      [] strategy.kind = "RosTimeStrategy" -> "ros_time"
      [] strategy.kind = "RosDurationStrategy" -> "ros_duration"
      [] strategy.kind = "HeaderStrategy" -> "std_msgs_Header"
      [] strategy.kind \in {"RosIntStrategy", "RosFloatStrategy"} ->
            "ros_" \o Join(strategy.ros_type)
      [] strategy.kind = "MsgStrategy" -> strategy.name

\* C17: a by-name reference renders as <name>(), and for every key t of
\* defaults, built-in or message type of a schema, Reuse.from_ros_type(t)
\* and Reuse.from_strategy(defaults[t]) carry the same name, which is the
\* name of the function the rendered definition of defaults[t] defines.
C17_ReuseNames ==
    \A t \in DOMAIN defaults :
        LET by_type == Reuse_from_ros_type(t)
            by_strategy == Reuse_from_strategy(defaults[t])
        IN /\ by_type.strategy_name = by_strategy.strategy_name
           /\ by_strategy.strategy_name = to_python_name(defaults[t])
           /\ Join(Reuse_to_python(by_type, "strategies")) =
                 to_python_name(defaults[t]) \o "()"

\* the defaults of both message types have been built
C17_Witness ==
    /\ MsgTypes \subseteq DOMAIN defaults
    /\ Join(Reuse_to_python(Reuse_from_strategy(defaults[pkg_Msg_v1]),
                            "strategies")) = "pkg_Msg_v1()"
    /\ Reuse_from_ros_type(std_msgs_Header).strategy_name = "std_msgs_Header"

\* the name by which the fields of a schema refer to a type of the catalog
default_name(ros_type) ==
    IF ros_type = <<"Header">> THEN defaults[std_msgs_Header].name
    ELSE defaults[ros_type].name

\* C18: after make_defaults, a field declared as an array of uint8 has the
\* raw-binary strategy; any other array of unknown length a list strategy of
\* 0 to 256 elements, and any other array of length n a strategy of exactly
\* n elements, over a by-name reference to the default of the element type;
\* a scalar a by-name reference to the default of its built-in or message
\* type.
C18_DefaultMapping ==
    (last.op = "make_defaults" /\ last.ret = "None") =>
        \A t \in DOMAIN last.arg.items :
          \A f \in DOMAIN last.arg.items[t].items :
            LET token == last.arg.items[t].items[f]
                s == defaults[t].fields[f].strategy
                text == Join(to_python(s, "st"))
                known == token.ros_type \in DOMAIN defaults \cup {<<"Header">>}
            IN /\ (token.is_array /\ token.ros_type = <<"uint8">>) =>
                     /\ s.kind = "ByteArrays"
                     /\ \E n \in 0..256 :
                           text = "st.binary(min_size=0, max_size="
                                  \o ToString(n) \o ")"
               /\ (/\ token.is_array /\ token.ros_type # <<"uint8">>
                   /\ token.length = None /\ known) =>
                     /\ s.kind = "Arrays"
                     /\ text = "st.lists(elements=" \o
                               default_name(token.ros_type) \o
                               "(), min_size=0, max_size=256)"
               /\ (/\ token.is_array /\ token.ros_type # <<"uint8">>
                   /\ token.length # None /\ known) =>
                     /\ s.kind = "Arrays"
                     /\ text = "st.tuples(*[" \o
                               default_name(token.ros_type) \o
                               "() for i in xrange(" \o
                               ToString(token.length[1]) \o ")])"
               /\ (~token.is_array /\ known) =>
                     /\ s.kind = "Reuse"
                     /\ text = default_name(token.ros_type) \o "()"

\* a schema with an array of bytes, an array of unknown length, an array of
\* fixed length and scalars has been built
C18_Witness ==
    /\ last.op = "make_defaults"
    /\ last.ret = "None"
    /\ DOMAIN last.arg.items = MsgTypes
    /\ last.arg.items[pkg_Msg].items = FieldsUnknown
    /\ last.arg.items[pkg_Msg_v1].items = FieldsNested
    /\ defaults[pkg_Msg_v1].fields.d.strategy.kind = "ByteArrays"

(***************************************************************************)
(* Field modifiers and value strategies                                    *)
(***************************************************************************)
FixedValueModifier(value) == [kind |-> "FixedValueModifier", value |-> value]

StrategyModifier(strategy) == [kind |-> "StrategyModifier", strategy |-> strategy]

ExclusionModifier(value) == [kind |-> "ExclusionModifier", value |-> value]

FixedIndexModifier(index, modifier) ==
    [kind |-> "FixedIndexModifier", index |-> index, modifier |-> modifier]

RandomIndexModifier(modifier) ==
    [kind |-> "RandomIndexModifier", modifier |-> modifier]

\* Integers.__init__
Integers(min_value, max_value) ==
    [kind |-> "Integers", min_value |-> min_value, max_value |-> max_value]

(***************************************************************************)
(* The condition AST that the HPL front end hands to the compiler, as the  *)
(* attributes the compiler reads.                                          *)
(***************************************************************************)
NoIndex == [t |-> "None", v |-> ""]
IntIndex(i) == [t |-> "int", v |-> ToString(i)]
Quantifier(q) == [t |-> "str", v |-> q]

\* one segment of a field-access path: name, token, is_loop, index
PlainField(name) ==
    [name |-> name, token |-> name, is_loop |-> FALSE, index |-> NoIndex]
IndexedField(name, i) ==
    [name |-> name, token |-> name \o "[" \o ToString(i) \o "]",
     is_loop |-> FALSE, index |-> IntIndex(i)]
LoopField(name, q) ==
    [name |-> name, token |-> name \o "[" \o q \o "]",
     is_loop |-> TRUE, index |-> Quantifier(q)]

\* a field-access path: variable, get_loops(), last_name, full_name
HplFieldExpression2(variable, loops, last_name) ==
    [node |-> "HplFieldExpression2", variable |-> variable, loops |-> loops,
     last_name |-> last_name,
     full_name |->
        str_join(".",
            <<variable>> \o
            [i \in 1..Len(loops) |->
                str_join(".", [j \in 1..Len(loops[i]) |-> loops[i][j].token])]
            \o (IF last_name = "" THEN <<>> ELSE <<last_name>>))]

HplLiteralInt(i) == [node |-> "HplLiteral", type |-> "int", int |-> i, str |-> ""]
HplLiteralStr(s) == [node |-> "HplLiteral", type |-> "str", int |-> 0, str |-> s]

HplSet(values) == [node |-> "HplSet", values |-> values]

HplRange(lower_bound, upper_bound, exclude_lower, exclude_upper) ==
    [node |-> "HplRange", lower_bound |-> lower_bound,
     upper_bound |-> upper_bound, exclude_lower |-> exclude_lower,
     exclude_upper |-> exclude_upper]

HplFieldCondition(test, field, operator, value) ==
    [is_equality_test |-> test = "equality",
     is_comparison_test |-> test = "comparison",
     is_inclusion_test |-> test = "inclusion",
     field |-> field, operator |-> operator, value |-> value]

\* repr(value.value) of a literal
py_repr(literal) ==
    IF literal.type = "int" THEN ToString(literal.int)
    ELSE "'" \o literal.str \o "'"

(***************************************************************************)
(* The conditions given to the compiler                                    *)
(***************************************************************************)
\* the fields of one loop of get_loops(): the last one is the loop segment
LoopSegments ==
    {<<LoopField("a", "any")>>, <<IndexedField("p", 1), LoopField("b", "all")>>}

LoopLists(n) == UNION {[1..k -> LoopSegments] : k \in 0..n}

LeftExprs ==
    {HplFieldExpression2("m", loops, last_name) :
        loops \in LoopLists(MaxLoops), last_name \in {"", "c"}}

RightExprs ==
    {HplFieldExpression2("n", loops, "d") :
        loops \in {<<>>, <<<<LoopField("e", "all")>>>>}}

Literals == <<HplLiteralInt(5), HplLiteralStr("ok"), HplLiteralInt(-3)>>

Values == {Literals[1]} \cup RightExprs

Sets == {HplSet(SubSeq(Literals, 1, n)) : n \in 0..MaxSet}

Ranges ==
    {HplRange(HplLiteralInt(0), HplLiteralInt(10), xl, xu) :
        xl \in BOOLEAN, xu \in BOOLEAN}
    \cup {HplRange(HplFieldExpression2("n", <<>>, "d"), HplLiteralInt(10),
                   FALSE, FALSE)}

WellFormed ==
    {HplFieldCondition("equality", f, op, v) :
        f \in LeftExprs, op \in {"=", "!="}, v \in Values}
    \cup {HplFieldCondition("comparison", f, op, v) :
        f \in LeftExprs, op \in {"<", ">="}, v \in Values}
    \cup {HplFieldCondition("inclusion", f, "in", v) :
        f \in LeftExprs, v \in Sets \cup Ranges}

\* conditions whose value is not of an expected kind
IllFormed ==
    {HplFieldCondition("inclusion", HplFieldExpression2("m", <<>>, "c"), "in",
                       Literals[1]),
     HplFieldCondition("equality", HplFieldExpression2("m", <<>>, "c"), "=",
                       HplSet(<<>>)),
     HplFieldCondition("comparison", HplFieldExpression2("m", <<>>, "c"), "<",
                       HplRange(Literals[1], Literals[1], FALSE, FALSE))}

Conditions == WellFormed \cup IllFormed

(***************************************************************************)
(* ConditionTransformer                                                    *)
(***************************************************************************)
var_prefix == "self._user_"

\* a _reset that leaves the alias counter as it is
reset_KeepVar(st) ==
    [st EXCEPT !.loops = <<>>, !.left_operand = None, !.right_operands = <<>>]

\* ConditionTransformer._reset
reset(st) ==
    [st EXCEPT !.loops = <<>>, !.left_operand = None,
               !.right_operands = <<>>, !.var = 0]

\* ConditionTransformer.Loop
Loop(fields, root, alias) ==
    [fields |-> fields, variable |-> root, alias |-> alias]

\* Loop.name
Loop_name(loop) ==
    loop.variable \o "." \o
    str_join(".", [i \in 1..Len(loop.fields) |->
                      IF loop.fields[i].is_loop THEN loop.fields[i].name
                      ELSE loop.fields[i].token])

\* the assertion of Loop.operator holds
Loop_operator_ok(loop) == loop.fields[Len(loop.fields)].index.t = "str"

\* Loop.operator
Loop_operator(loop) == loop.fields[Len(loop.fields)].index.v

Reference(expr, root) == [node |-> "Reference", expr |-> expr, root |-> root]

\* a _new_var whose counter wraps around after two aliases
new_var_Wrapping(st) == "x" \o ToString(st.var % 2)

\* ConditionTransformer._new_var: the name, the counter being incremented
\* by the caller below
new_var(st) == "x" \o ToString(st.var)

\* the loop of _field_expression over expr.get_loops()
RECURSIVE field_expression_loops(_, _, _)
field_expression_loops(st, root, loops) ==
    IF loops = <<>> THEN [st |-> st, root |-> root]
    ELSE LET alias == new_var(st)
             loop == Loop(Head(loops), root, alias)
         IN field_expression_loops(
                [st EXCEPT !.var = @ + 1, !.loops = Append(@, loop)],
                alias, Tail(loops))

\* ConditionTransformer._field_expression
field_expression(st, expr) ==
    LET r == field_expression_loops(st, var_prefix \o expr.variable, expr.loops)
    IN [st |-> r.st, value |-> Reference(expr, r.root), error |-> ""]

\* the value of an equality or comparison test: the literal, or the
\* reference of the right-hand path
operand_value(st, condition) ==
    IF condition.value.node = "HplLiteral"
    THEN [st |-> st, value |-> condition.value, error |-> ""]
    ELSE IF condition.value.node # "HplFieldExpression2"
    THEN [st |-> st, value |-> None, error |-> "AssertionError"]
    ELSE field_expression(st, condition.value)

\* an _equality_test that emits the operator as it is
equality_test_Unlowered(st, condition) ==
    LET r == operand_value(st, condition)
    IN IF r.error # "" THEN [st |-> r.st, error |-> r.error]
       ELSE [st |-> [r.st EXCEPT !.right_operands =
                        Append(@, [op |-> condition.operator, value |-> r.value])],
             error |-> ""]

\* ConditionTransformer._equality_test
equality_test(st, condition) ==
    LET op == IF condition.operator = "=" THEN "==" ELSE condition.operator
        r == operand_value(st, condition)
    IN IF r.error # "" THEN [st |-> r.st, error |-> r.error]
       ELSE [st |-> [r.st EXCEPT !.right_operands =
                        Append(@, [op |-> op, value |-> r.value])],
             error |-> ""]

\* ConditionTransformer._comparison_test
comparison_test(st, condition) ==
    LET r == operand_value(st, condition)
    IN IF r.error # "" THEN [st |-> r.st, error |-> r.error]
       ELSE [st |-> [r.st EXCEPT !.right_operands =
                        Append(@, [op |-> condition.operator, value |-> r.value])],
             error |-> ""]

\* ConditionTransformer._set_literal
set_literal(hpl_enum) == [node |-> "tuple", items |-> hpl_enum.values]

\* ConditionTransformer._range_literal
range_literal(hpl_range) == <<hpl_range.lower_bound, hpl_range.upper_bound>>

\* an _inclusion_test that takes both operators from exclude_lower
inclusion_test_OneFlag(st, condition) ==
    IF condition.value.node = "HplSet"
    THEN [st |-> [st EXCEPT !.right_operands =
                    Append(@, [op |-> condition.operator,
                               value |-> set_literal(condition.value)])],
          error |-> ""]
    ELSE IF condition.value.node # "HplRange"
    THEN [st |-> st, error |-> "AssertionError"]
    ELSE LET bounds == range_literal(condition.value)
         IN [st |-> [st EXCEPT !.right_operands =
                       @ \o <<[op |-> IF condition.value.exclude_lower
                                      THEN ">" ELSE ">=",
                               value |-> bounds[1]],
                              [op |-> IF condition.value.exclude_lower
                                      THEN "<" ELSE "<=",
                               value |-> bounds[2]]>>],
             error |-> ""]

\* an _inclusion_test that takes a value that is not a set as a range when
\* it is one and as the right operand otherwise
inclusion_test_Unchecked(st, condition) ==
    IF condition.value.node = "HplSet"
    THEN [st |-> [st EXCEPT !.right_operands =
                    Append(@, [op |-> condition.operator,
                               value |-> set_literal(condition.value)])],
          error |-> ""]
    ELSE IF condition.value.node # "HplRange"
    THEN [st |-> [st EXCEPT !.right_operands =
                    Append(@, [op |-> condition.operator,
                               value |-> condition.value])],
          error |-> ""]
    ELSE LET bounds == range_literal(condition.value)
         IN [st |-> [st EXCEPT !.right_operands =
                       @ \o <<[op |-> IF condition.value.exclude_lower
                                      THEN ">" ELSE ">=",
                               value |-> bounds[1]],
                              [op |-> IF condition.value.exclude_upper
                                      THEN "<" ELSE "<=",
                               value |-> bounds[2]]>>],
             error |-> ""]

\* ConditionTransformer._inclusion_test
inclusion_test(st, condition) ==
    IF condition.value.node = "HplSet"
    THEN [st |-> [st EXCEPT !.right_operands =
                    Append(@, [op |-> condition.operator,
                               value |-> set_literal(condition.value)])],
          error |-> ""]
    ELSE IF condition.value.node # "HplRange"
    THEN [st |-> st, error |-> "AssertionError"]
    ELSE LET bounds == range_literal(condition.value)
         IN [st |-> [st EXCEPT !.right_operands =
                       @ \o <<[op |-> IF condition.value.exclude_lower
                                      THEN ">" ELSE ">=",
                               value |-> bounds[1]],
                              [op |-> IF condition.value.exclude_upper
                                      THEN "<" ELSE "<=",
                               value |-> bounds[2]]>>],
             error |-> ""]

\* ConditionTransformer._process
process(st, condition) ==
    LET l == field_expression(st, condition.field)
        st1 == [l.st EXCEPT !.left_operand = l.value]
    IN IF condition.is_equality_test THEN equality_test(st1, condition)
       ELSE IF condition.is_comparison_test THEN comparison_test(st1, condition)
       ELSE IF ~condition.is_inclusion_test
       THEN [st |-> st1, error |-> "AssertionError"]
       ELSE inclusion_test(st1, condition)

\* ConditionTransformer._python
RECURSIVE python(_)
python(value) ==
    CASE value.node = "Reference" ->
            IF value.expr.last_name # ""
            THEN value.root \o "." \o value.expr.last_name
            ELSE value.root
      [] value.node = "HplLiteral" -> py_repr(value)
      [] value.node = "tuple" ->
            "(" \o str_join(", ", [i \in 1..Len(value.items) |->
                                     python(value.items[i])]) \o ")"
      [] OTHER -> var_prefix \o value.full_name

\* the assertion of _python holds for the value and for the members of a tuple
RECURSIVE python_ok(_)
python_ok(value) ==
    CASE value.node \in {"Reference", "HplLiteral"} -> TRUE
      [] value.node = "tuple" ->
            \A i \in 1..Len(value.items) : python_ok(value.items[i])
      [] OTHER -> value.node = "HplFieldExpression2"

\* "{}({{}} for {} in {})"
loop_template == <<"{}", "(", "{{}}", " for ", "{}", " in ", "{}", ")">>

\* a loop of gen that wraps the text built so far in each loop in turn
RECURSIVE wrap_loops_InsideOut(_, _)
wrap_loops_InsideOut(expr, loops) ==
    IF loops = <<>> THEN expr
    ELSE wrap_loops_InsideOut(
            str_format(<<"{}", "(", "{}", " for ", "{}", " in ", "{}", ")">>,
                       <<<<Loop_operator(Head(loops))>>, expr,
                         <<Head(loops).alias>>, <<Loop_name(Head(loops))>>>>),
            Tail(loops))

\* the loop of gen over self.loops: expr = expr.format(<text of the loop>)
RECURSIVE wrap_loops(_, _)
wrap_loops(expr, loops) ==
    IF loops = <<>> THEN expr
    ELSE wrap_loops(
            str_format(expr,
                <<str_format(loop_template,
                             <<<<Loop_operator(Head(loops))>>,
                               <<Head(loops).alias>>,
                               <<Loop_name(Head(loops))>>>>)>>),
            Tail(loops))

\* " and ".join("{} {} {}".format(left, op, self._python(value)) ...)
inner_text(st) ==
    LET left == python(st.left_operand)
    IN str_join(" and ",
                [i \in 1..Len(st.right_operands) |->
                    left \o " " \o st.right_operands[i].op \o " " \o
                    python(st.right_operands[i].value)])

\* the assertions of gen on the loops and the operands hold
gen_asserts(st) ==
    /\ \A i \in 1..Len(st.loops) : Loop_operator_ok(st.loops[i])
    /\ st.left_operand # None
    /\ \A i \in 1..Len(st.right_operands) :
          /\ st.right_operands[i].value.node \in {"HplLiteral", "Reference", "tuple"}
          /\ python_ok(st.right_operands[i].value)

\* a gen that aggregates each comparison on its own
gen_text_EachWrapped(st) ==
    LET left == python(st.left_operand)
    IN "assert " \o
       str_join(" and ",
           [i \in 1..Len(st.right_operands) |->
               Join(str_format(wrap_loops(<<"{}">>, st.loops),
                   <<<<left \o " " \o st.right_operands[i].op \o " " \o
                       python(st.right_operands[i].value)>>>>))])

\* the text gen returns: the loops formatted into one another, the joined
\* comparisons formatted into the innermost one
gen_text(st) ==
    "assert " \o
    Join(str_format(wrap_loops(<<"{}">>, st.loops), <<<<inner_text(st)>>>>))

\* the transformer st0 after gen(condition), out being what gen returns or
\* raises, condition the argument of the call, and dirty telling that the
\* transformer held the loops of an earlier call when gen was called
gen_on(st0, condition) ==
    LET p == process(reset(st0), condition)
        st == [p.st EXCEPT !.condition = condition,
                           !.dirty = st0.loops # <<>>]
    IN IF p.error # ""
       THEN [st EXCEPT !.out = [error |-> p.error, text |-> ""]]
       ELSE IF ~gen_asserts(st)
       THEN [st EXCEPT !.out = [error |-> "AssertionError", text |-> ""]]
       ELSE [st EXCEPT !.out = [error |-> "", text |-> gen_text(st)]]

\* this transformer after gen(condition)
gen_result(condition) == gen_on(ct, condition)

\* ConditionTransformer.gen
gen(condition) ==
    /\ ct' = gen_result(condition)
    /\ UNCHANGED <<defaults, custom, last, num, strat, run, hl>>

\* ConditionTransformer.__init__
ConditionTransformer ==
    [loops |-> <<>>, left_operand |-> None, right_operands |-> <<>>,
     var |-> 0, condition |-> None, dirty |-> FALSE, out |-> None]

InitCond ==
    /\ defaults = make_builtins
    /\ custom = <<>>
    /\ last = [op |-> "init", arg |-> None, ret |-> "None"]
    /\ num = None
    /\ ct = ConditionTransformer
    /\ strat = None
    /\ run = None
    /\ hl = None

NextCond == \E condition \in Conditions : gen(condition)

SpecCond == InitCond /\ [][NextCond]_vars

(***************************************************************************)
(* Properties of the condition compiler                                    *)
(***************************************************************************)
\* gen has returned an assertion text
ct_ok == ct.out # None /\ ct.out.error = ""

\* the dotted path of the segments of one loop
segment_path(fields) ==
    str_join(".", [j \in 1..Len(fields) |->
                      IF fields[j].is_loop THEN fields[j].name
                      ELSE fields[j].token])

\* the aggregation wrappers of a path, outer to inner, the aliases being
\* numbered from first: the i-th wrapper iterates over a source rooted at
\* the alias of the wrapper before it, the first one at the path's variable
path_frames(expr, first) ==
    [i \in 1..Len(expr.loops) |->
        [op |-> expr.loops[i][Len(expr.loops[i])].index.v,
         alias |-> "x" \o ToString(first + i - 1),
         source |-> (IF i = 1 THEN "self._user_" \o expr.variable
                     ELSE "x" \o ToString(first + i - 2))
                    \o "." \o segment_path(expr.loops[i])]]

\* the wrappers around a predicate, the first frame being the outermost
RECURSIVE wrapped(_, _)
wrapped(frames, base) ==
    IF frames = <<>> THEN base
    ELSE frames[1].op \o "(" \o wrapped(Tail(frames), base) \o " for " \o
         frames[1].alias \o " in " \o frames[1].source \o ")"

\* the wrappers of a condition: those of the left path, then those of the
\* right-hand path of an equality or comparison test
condition_frames(condition) ==
    path_frames(condition.field, 0) \o
    (IF /\ condition.is_equality_test \/ condition.is_comparison_test
        /\ condition.value.node = "HplFieldExpression2"
     THEN path_frames(condition.value, Len(condition.field.loops))
     ELSE <<>>)

\* the text of a reference to a path whose innermost alias is alias
reference_text(expr, alias) ==
    IF expr.last_name # "" THEN alias \o "." \o expr.last_name ELSE alias

\* the text of the left reference of a condition
left_text(condition) ==
    reference_text(condition.field,
        IF condition.field.loops = <<>>
        THEN "self._user_" \o condition.field.variable
        ELSE "x" \o ToString(Len(condition.field.loops) - 1))

tuple_literals(members) ==
    LET inside == str_join(", ", members)
    IN IF Len(members) = 0 THEN {"()"}
       ELSE IF Len(members) = 1 THEN {"(" \o inside \o ",)"}
       ELSE {"(" \o inside \o ")", "(" \o inside \o ",)"}

\* C10: an inclusion test against a set of n members compiles to one
\* membership test whose right operand is a tuple literal of exactly those
\* members in their order, for every n, n = 1 included.
C10_SetInclusion ==
    (/\ ct_ok
     /\ ~ct.condition.is_equality_test
     /\ ~ct.condition.is_comparison_test
     /\ ct.condition.value.node = "HplSet") =>
        LET values == ct.condition.value.values
            members == [i \in 1..Len(values) |-> py_repr(values[i])]
        IN /\ Len(ct.right_operands) = 1
           /\ \E tuple \in tuple_literals(members) :
                 ct.out.text =
                    "assert " \o
                    wrapped(condition_frames(ct.condition),
                            left_text(ct.condition) \o " " \o
                            ct.condition.operator \o " " \o tuple)

ill_shaped(condition) ==
    \/ /\ condition.is_equality_test \/ condition.is_comparison_test
       /\ condition.value.node \notin {"HplLiteral", "HplFieldExpression2"}
    \/ /\ ~condition.is_equality_test
       /\ ~condition.is_comparison_test
       /\ condition.value.node \notin {"HplSet", "HplRange"}

\* C19: gen of a condition whose right-hand side is not of an expected kind
\* (an inclusion test on neither a set nor a range, an equality or comparison
\* test on neither a literal nor a field-access path) raises an error and
\* returns no assertion text.
C19_ShapeError ==
    (ct.out # None /\ ill_shaped(ct.condition)) =>
        /\ ct.out.error # ""
        /\ ct.out.text = ""

\* an inclusion test whose value is a literal has been rejected
C19_Witness ==
    /\ ct.out # None
    /\ ill_shaped(ct.condition)
    /\ ct.condition.is_inclusion_test
    /\ ct.condition.value.node = "HplLiteral"
    /\ ct.out.error = "AssertionError"

\* C20: what gen returns or raises for a condition on a transformer that has
\* compiled any other conditions before is what it returns or raises for it
\* on a new transformer: loops, operands and alias counter are those of a
\* first call, and the alias of the first loop is x0.
C20_HistoryIndependent ==
    ct.out # None =>
        LET first == gen_on(ConditionTransformer, ct.condition)
        IN /\ ct.out = first.out
           /\ ct.loops = first.loops
           /\ ct.left_operand = first.left_operand
           /\ ct.right_operands = first.right_operands
           /\ ct.var = first.var
           /\ ct.var = Len(ct.loops)
           /\ ct.loops # <<>> => ct.loops[1].alias = "x0"

\* a condition with loops has been compiled by a transformer that held the
\* loops of an earlier condition
C20_Witness ==
    /\ ct_ok
    /\ ct.dirty
    /\ Len(ct.loops) = MaxLoops
    /\ ct.loops[1].alias = "x0"

(***************************************************************************)
(* The message filters given to the strategy synthesizer                   *)
(***************************************************************************)
\* one segment of a field-access path with the types the front end has
\* resolved: the message type that holds the field, and the field's type
TypedField(name, index, msg_type, field_type) ==
    [name |-> name, index |-> index, is_loop |-> index.t = "str",
     msg_type |-> msg_type, field_type |-> field_type]

HplFieldExpression(fields) == [node |-> "HplFieldExpression", fields |-> fields]

HplMsgFilter(field_conditions) == [field_conditions |-> field_conditions]

\* msg_filter.normalise(): the filters given hold no negation
normalise(msg_filter) == msg_filter

\* the fields level: uint8 and data: int32[] of pkg/Msg, and the field
\* inner: pkg/Msg of pkg/Outer
level == TypedField("level", NoIndex, pkg_Msg, TypeToken(<<"uint8">>))

data(index) ==
    TypedField("data", index, pkg_Msg, ArrayTypeToken(<<"int32">>, None))

inner ==
    TypedField("inner", NoIndex, <<"pkg", "/", "Outer">>, TypeToken(pkg_Msg))

\* the conditions on the paths that end in level, data[any], data[all] or
\* data[1], from pkg/Msg or through inner from pkg/Outer
FieldConditions ==
    LET leaves == {level, data(Quantifier("any")), data(Quantifier("all")),
                   data(IntIndex(1))}
        paths == {<<leaf>> : leaf \in leaves}
                 \cup {<<inner, leaf>> : leaf \in leaves}
        literals == {HplLiteralInt(5), HplLiteralInt(100)}
    IN {HplFieldCondition("equality", HplFieldExpression(path), op, v) :
            path \in paths, op \in {"=", "!="}, v \in literals}
       \cup {HplFieldCondition("comparison", HplFieldExpression(path), op, v) :
            path \in paths, op \in {"<", "<=", ">", ">="}, v \in literals}
       \cup {HplFieldCondition("inclusion", HplFieldExpression(path), "in", v) :
            path \in paths, v \in Sets \cup Ranges}

\* level = 5 and any data > 100 on pkg/Msg
level_is_5 ==
    HplFieldCondition("equality", HplFieldExpression(<<level>>), "=",
                      HplLiteralInt(5))

any_data_gt_100 ==
    HplFieldCondition("comparison",
                      HplFieldExpression(<<data(Quantifier("any"))>>), ">",
                      HplLiteralInt(100))

\* filters of no, one and two conditions
MsgFilters ==
    {HplMsgFilter(<<>>)}
    \cup {HplMsgFilter(<<c>>) : c \in FieldConditions}
    \cup {HplMsgFilter(<<c, d>>) : c, d \in {level_is_5, any_data_gt_100}}

(***************************************************************************)
(* StrategyTransformer                                                     *)
(***************************************************************************)
\* StrategyMap(), as the value of an attribute
StrategyMap ==
    [py |-> "StrategyMap", defaults |-> make_builtins, custom |-> <<>>]

\* StrategyMap.make_custom on such a value
StrategyMap_make_custom(map, msg_type) ==
    LET old == IF msg_type \in DOMAIN map.custom THEN map.custom[msg_type]
               ELSE <<>>
        strategy == MsgStrategy(msg_type,
                                Some(CustomName(msg_type, Len(old) + 1)))
    IN [map EXCEPT !.custom =
          [t \in DOMAIN map.custom \cup {msg_type} |->
              IF t = msg_type THEN Append(old, strategy) ELSE map.custom[t]]]

\* StrategyTransformer.__init__; condition and out record the last gen
StrategyTransformer ==
    [strategies |-> StrategyMap, target_msg_type |-> None,
     target_field |-> None, target_type |-> None, assumptions |-> <<>>,
     condition |-> None, out |-> None]

\* StrategyTransformer._reset: strategies becomes an empty dict
StrategyTransformer_reset(st) ==
    [st EXCEPT !.target_msg_type = None, !.target_field = None,
               !.target_type = None, !.strategies = PyDict(<<>>),
               !.assumptions = <<>>]

\* StrategyTransformer._process_left_field: a dict has no make_custom, and
\* after the make_custom of a StrategyMap the name FieldStrategy is not
\* defined in the module
process_left_field(st, expr) ==
    IF expr.fields = <<>> THEN [st |-> st, error |-> "IndexError"]
    ELSE LET field == expr.fields[Len(expr.fields)]
         IN IF st.strategies.py # "StrategyMap"
            THEN [st |-> st, error |-> "AttributeError"]
            ELSE [st |-> [st EXCEPT !.strategies =
                            StrategyMap_make_custom(@, field.msg_type)],
                  error |-> "NameError"]

\* StrategyTransformer._process: condition is the last one the loop bound
StrategyTransformer_process(st, msg_filter) ==
    LET filter == normalise(msg_filter)
        n == Len(filter.field_conditions)
    IN IF n = 0 THEN [st |-> st, error |-> "UnboundLocalError"]
       ELSE process_left_field(st, filter.field_conditions[n].field)

\* StrategyTransformer.gen
StrategyTransformer_gen(condition) ==
    /\ LET p == StrategyTransformer_process(StrategyTransformer_reset(strat),
                                            condition)
       IN strat' = [p.st EXCEPT
                      !.condition = condition,
                      !.out = IF p.error # ""
                              THEN [error |-> p.error, value |-> None]
                              ELSE [error |-> "", value |-> p.st.strategies]]
    /\ UNCHANGED <<defaults, custom, last, num, ct, run, hl>>

InitStrat ==
    /\ defaults = make_builtins
    /\ custom = <<>>
    /\ last = [op |-> "init", arg |-> None, ret |-> "None"]
    /\ num = None
    /\ ct = None
    /\ strat = StrategyTransformer
    /\ run = None
    /\ hl = None

NextStrat == \E condition \in MsgFilters : StrategyTransformer_gen(condition)

SpecStrat == InitStrat /\ [][NextStrat]_vars

(***************************************************************************)
(* Properties of the strategy synthesizer                                  *)
(***************************************************************************)
\* gen has been called with a filter of at least one condition
strat_called ==
    /\ strat.out # None
    /\ strat.condition.field_conditions # <<>>

\* the path of the condition gen works on, and its leaf
strat_path ==
    strat.condition.field_conditions[Len(strat.condition.field_conditions)]
        .field.fields

strat_leaf == strat_path[Len(strat_path)]

\* the custom variants of a message type in the transformer's catalog
strat_custom(msg_type) ==
    IF msg_type \in DOMAIN strat.strategies.custom
    THEN strat.strategies.custom[msg_type] ELSE <<>>

\* C12: for the condition level = 5 on pkg/Msg, gen produces a custom
\* composite for pkg/Msg that has a field strategy for each declared field
\* (level alone), level keeping its default base strategy and carrying the
\* fixed-value modifier with value 5.
C12_FixedValueForLevel ==
    (strat.out # None /\ strat.condition = HplMsgFilter(<<level_is_5>>)) =>
        /\ strat.out.error = ""
        /\ strat.strategies.py = "StrategyMap"
        /\ \E k \in 1..Len(strat_custom(pkg_Msg)) :
              LET variant == strat_custom(pkg_Msg)[k]
              IN /\ DOMAIN variant.fields = {"level"}
                 /\ variant.fields.level.strategy = Reuse("ros_uint8")
                 /\ variant.fields.level.modifiers = <<FixedValueModifier(5)>>

\* C13: gen walks the path of the condition from the leaf to the root, mints
\* exactly one custom composite for each message type on it, gives the field
\* of each parent a by-name reference to the variant of its child, and
\* returns the custom composite of the root message type.
C13_LeafToRoot ==
    strat_called =>
        /\ strat.out.error = ""
        /\ strat.strategies.py = "StrategyMap"
        /\ \A i \in 1..Len(strat_path) :
              Len(strat_custom(strat_path[i].msg_type)) = 1
        /\ \A i \in 1..(Len(strat_path) - 1) :
              LET parent == strat_custom(strat_path[i].msg_type)[1]
                  child == strat_custom(strat_path[i + 1].msg_type)[1]
              IN /\ strat_path[i].name \in DOMAIN parent.fields
                 /\ parent.fields[strat_path[i].name].strategy =
                       Reuse(child.name)
        /\ strat.out.value = strat_custom(strat_path[1].msg_type)[1]

\* C14: when the leaf of the path has an index, the modifier of the leaf
\* field is a fixed-index modifier at that index for a number and a
\* random-index modifier for the quantifier any; for any data > 100 on an
\* int32 array the inner modifier draws from 101 to INT32_MAX.
C14_IndexModifiers ==
    (/\ strat_called
     /\ strat_leaf.index.t # "None"
     /\ strat_leaf.is_loop => strat_leaf.index.v = "any") =>
        /\ strat.out.error = ""
        /\ strat.strategies.py = "StrategyMap"
        /\ \E k \in 1..Len(strat_custom(strat_leaf.msg_type)) :
              LET variant == strat_custom(strat_leaf.msg_type)[k]
                  modifiers == variant.fields[strat_leaf.name].modifiers
              IN /\ strat_leaf.name \in DOMAIN variant.fields
                 /\ Len(modifiers) = 1
                 /\ strat_leaf.is_loop =>
                       modifiers[1].kind = "RandomIndexModifier"
                 /\ ~strat_leaf.is_loop =>
                       /\ modifiers[1].kind = "FixedIndexModifier"
                       /\ ToString(modifiers[1].index) = strat_leaf.index.v
                 /\ strat.condition = HplMsgFilter(<<any_data_gt_100>>) =>
                       modifiers[1] =
                          RandomIndexModifier(StrategyModifier(
                              Integers(101, 2^31 - 1)))

(***************************************************************************)
(* Rendering of a FieldStrategy: a text is the sequence of its lines, a    *)
(* line the sequence of its tokens                                         *)
(***************************************************************************)
\* " " * n
RECURSIVE spaces(_)
spaces(n) == IF n = 0 THEN "" ELSE " " \o spaces(n - 1)

\* the to_python of the modifiers; field_name is a token sequence
RECURSIVE modifier_to_python(_, _, _, _, _)
\* a rendering whose fixed-index modifier puts its subscript before those
\* of the modifiers around it
modifier_to_python_InnerFirst(modifier, field_name, var_name, module, indent) ==
    CASE modifier.kind = "FixedValueModifier" ->
            <<str_format(<<"{}", "{}", ".", "{}", " = ", "{}">>,
                         <<<<spaces(indent)>>, <<var_name>>, field_name,
                           <<ToString(modifier.value)>>>>)>>
      [] modifier.kind = "StrategyModifier" ->
            <<str_format(<<"{}", "{}", ".", "{}", " = draw(", "{}", ")">>,
                         <<<<spaces(indent)>>, <<var_name>>, field_name,
                           to_python(modifier.strategy, module)>>)>>
      [] modifier.kind = "ExclusionModifier" ->
            <<str_format(<<"{}", "assume(", "{}", ".", "{}", " != ", "{}", ")">>,
                         <<<<spaces(indent)>>, <<var_name>>, field_name,
                           <<ToString(modifier.value)>>>>)>>
      [] modifier.kind = "FixedIndexModifier" ->
            modifier_to_python(modifier.modifier,
                str_format(<<"{}", "[", "{}", "]", "{}">>,
                           <<<<Head(field_name)>>, <<ToString(modifier.index)>>,
                             Tail(field_name)>>),
                var_name, module, indent)
      [] modifier.kind = "RandomIndexModifier" ->
            <<str_format(<<"{}", "i = draw(", "{}",
                           ".integers(min_value=0, max_value=len(", "{}", ".",
                           "{}", ")))">>,
                         <<<<spaces(indent)>>, <<module>>, <<var_name>>,
                           field_name>>)>>
            \o modifier_to_python(modifier.modifier,
                                  field_name \o <<"[", "i", "]">>,
                                  var_name, module, indent)

\* a rendering whose exclusion modifier assigns its literal
RECURSIVE modifier_to_python_ExclusionAssigns(_, _, _, _, _)
modifier_to_python_ExclusionAssigns(modifier, field_name, var_name, module, indent) ==
    CASE modifier.kind \in {"FixedValueModifier", "ExclusionModifier"} ->
            <<str_format(<<"{}", "{}", ".", "{}", " = ", "{}">>,
                         <<<<spaces(indent)>>, <<var_name>>, field_name,
                           <<ToString(modifier.value)>>>>)>>
      [] modifier.kind = "StrategyModifier" ->
            <<str_format(<<"{}", "{}", ".", "{}", " = draw(", "{}", ")">>,
                         <<<<spaces(indent)>>, <<var_name>>, field_name,
                           to_python(modifier.strategy, module)>>)>>
      [] modifier.kind = "FixedIndexModifier" ->
            modifier_to_python_ExclusionAssigns(modifier.modifier,
                str_format(<<"{}", "[", "{}", "]">>,
                           <<field_name, <<ToString(modifier.index)>>>>),
                var_name, module, indent)
      [] modifier.kind = "RandomIndexModifier" ->
            <<str_format(<<"{}", "i = draw(", "{}",
                           ".integers(min_value=0, max_value=len(", "{}", ".",
                           "{}", ")))">>,
                         <<<<spaces(indent)>>, <<module>>, <<var_name>>,
                           field_name>>)>>
            \o modifier_to_python_ExclusionAssigns(modifier.modifier,
                                  field_name \o <<"[", "i", "]">>,
                                  var_name, module, indent)

modifier_to_python(modifier, field_name, var_name, module, indent) ==
    CASE modifier.kind = "FixedValueModifier" ->
            <<str_format(<<"{}", "{}", ".", "{}", " = ", "{}">>,
                         <<<<spaces(indent)>>, <<var_name>>, field_name,
                           <<ToString(modifier.value)>>>>)>>
      [] modifier.kind = "StrategyModifier" ->
            <<str_format(<<"{}", "{}", ".", "{}", " = draw(", "{}", ")">>,
                         <<<<spaces(indent)>>, <<var_name>>, field_name,
                           to_python(modifier.strategy, module)>>)>>
      [] modifier.kind = "ExclusionModifier" ->
            <<str_format(<<"{}", "assume(", "{}", ".", "{}", " != ", "{}", ")">>,
                         <<<<spaces(indent)>>, <<var_name>>, field_name,
                           <<ToString(modifier.value)>>>>)>>
      [] modifier.kind = "FixedIndexModifier" ->
            modifier_to_python(modifier.modifier,
                str_format(<<"{}", "[", "{}", "]">>,
                           <<field_name, <<ToString(modifier.index)>>>>),
                var_name, module, indent)
      [] modifier.kind = "RandomIndexModifier" ->
            <<str_format(<<"{}", "i = draw(", "{}",
                           ".integers(min_value=0, max_value=len(", "{}", ".",
                           "{}", ")))">>,
                         <<<<spaces(indent)>>, <<module>>, <<var_name>>,
                           field_name>>)>>
            \o modifier_to_python(modifier.modifier,
                                  field_name \o <<"[", "i", "]">>,
                                  var_name, module, indent)

\* the lines of the modifiers from the k-th on, in the order of the list
RECURSIVE modifier_lines(_, _, _, _, _)
modifier_lines(field, k, var_name, module, indent) ==
    IF k > Len(field.modifiers) THEN <<>>
    ELSE modifier_to_python(field.modifiers[k], <<field.field_name>>,
                            var_name, module, indent)
         \o modifier_lines(field, k + 1, var_name, module, indent)

\* a to_python that renders the modifiers from the last to the first
RECURSIVE FieldStrategy_to_python_Reversed(_, _, _, _)
FieldStrategy_to_python_Reversed(field, var_name, module, indent) ==
    IF field.modifiers = <<>>
    THEN <<str_format(<<"{}", "{}", ".", "{}", " = draw(", "{}", ")">>,
                      <<<<spaces(indent)>>, <<var_name>>, <<field.field_name>>,
                        to_python(field.strategy, module)>>)>>
    ELSE LET n == Len(field.modifiers)
         IN FieldStrategy_to_python_Reversed(
                [field EXCEPT !.modifiers = SubSeq(@, 2, n)],
                var_name, module, indent)
            \o modifier_to_python(field.modifiers[1], <<field.field_name>>,
                                  var_name, module, indent)

\* FieldStrategy.to_python, the strategy not being None
FieldStrategy_to_python(field, var_name, module, indent) ==
    <<str_format(<<"{}", "{}", ".", "{}", " = draw(", "{}", ")">>,
                 <<<<spaces(indent)>>, <<var_name>>, <<field.field_name>>,
                   to_python(field.strategy, module)>>)>>
    \o modifier_lines(field, 1, var_name, module, indent)

(***************************************************************************)
(* A run of the rendered statements, as Python and the property-testing    *)
(* runtime execute them. A value is tagged with its type: an int, a list   *)
(* or a tuple of values.                                                   *)
(***************************************************************************)
\* the int that a decimal literal of the text denotes
py_int(tok) == CHOOSE n \in 0..9 : ToString(n) = tok

\* the values the strategy of a strategy text can draw: a named strategy
\* stands for one value of its type, integers(a, b) for a..b, lists(e, 0,
\* 256) for the lists of at most MaxSize draws of e, tuples(*[e for i in
\* xrange(n)]) for the tuples of n draws of e
RECURSIVE draws(_)
draws(strategy) ==
    CASE strategy[2] = "()" -> {[t |-> "int", v |-> 0]}
      [] strategy[2] = ".integers(min_value=" ->
            {[t |-> "int", v |-> n] :
                n \in py_int(strategy[3])..py_int(strategy[5])}
      [] strategy[2] = ".lists(elements=" ->
            LET elements == draws(SubSeq(strategy, 3, Len(strategy) - 1))
            IN {[t |-> "list", v |-> s] :
                  s \in UNION {[1..k -> elements] : k \in 0..MaxSize}}
      [] strategy[2] = ".tuples(*[" ->
            LET elements == draws(SubSeq(strategy, 3, Len(strategy) - 3))
                n == py_int(strategy[Len(strategy) - 1])
            IN {[t |-> "tuple", v |-> s] : s \in [1..n -> elements]}

\* value[i1][i2]...: the item, or the error of the subscription
RECURSIVE item(_, _)
item(value, indices) ==
    IF indices = <<>> THEN [error |-> "", value |-> value]
    ELSE IF value.t = "int" THEN [error |-> "TypeError", value |-> None]
    ELSE IF Head(indices) >= Len(value.v)
    THEN [error |-> "IndexError", value |-> None]
    ELSE item(value.v[Head(indices) + 1], Tail(indices))

\* value[i1][i2]... = new: the value after the assignment, or its error;
\* without indices the assignment binds the field
RECURSIVE set_item(_, _, _)
set_item(value, indices, new) ==
    IF indices = <<>> THEN [error |-> "", value |-> new]
    ELSE IF value.t = "int" THEN [error |-> "TypeError", value |-> None]
    ELSE IF Len(indices) = 1 /\ value.t = "tuple"
    THEN [error |-> "TypeError", value |-> None]
    ELSE IF Head(indices) >= Len(value.v)
    THEN [error |-> "IndexError", value |-> None]
    ELSE LET r == set_item(value.v[Head(indices) + 1], Tail(indices), new)
         IN IF r.error # "" THEN r
            ELSE [error |-> "",
                  value |-> [value EXCEPT !.v[Head(indices) + 1] = r.value]]

\* the statement of a rendered line: its kind, the index expressions of the
\* field it addresses, and its argument
statement(line) ==
    LET at(tok) == CHOOSE k \in 1..Len(line) : line[k] = tok
        has(tok) == \E k \in 1..Len(line) : line[k] = tok
        subscripts(path) ==
            [j \in 1..((Len(path) - 3) \div 3) |-> path[3 * j + 2]]
    IN IF line[2] = "assume("
       THEN [kind |-> "assume",
             indices |-> subscripts(SubSeq(line, 3, at(" != ") - 1)),
             arg |-> <<line[at(" != ") + 1]>>]
       ELSE IF line[2] = "i = draw("
       THEN [kind |-> "index",
             indices |-> subscripts(SubSeq(line, 5, Len(line) - 1)),
             arg |-> <<>>]
       ELSE IF has(" = ")
       THEN [kind |-> "assign",
             indices |-> subscripts(SubSeq(line, 2, at(" = ") - 1)),
             arg |-> <<line[at(" = ") + 1]>>]
       ELSE [kind |-> "draw",
             indices |-> subscripts(SubSeq(line, 2, at(" = draw(") - 1)),
             arg |-> SubSeq(line, at(" = draw(") + 1, Len(line) - 1)]

\* the field strategies that are rendered and run: an int32, a list, a
\* tuple and a list of lists of int32, with modifiers that fit the type
FieldStrategies ==
    LET int32 == Reuse_from_ros_type(<<"int32">>)
        on_int == {FixedValueModifier(5), FixedValueModifier(7),
                   ExclusionModifier(0), ExclusionModifier(5),
                   StrategyModifier(Integers(6, 7))}
        on_array == {FixedIndexModifier(0, FixedValueModifier(5)),
                     FixedIndexModifier(1, FixedValueModifier(7)),
                     RandomIndexModifier(FixedValueModifier(5)),
                     RandomIndexModifier(ExclusionModifier(0))}
        on_nested == {RandomIndexModifier(RandomIndexModifier(
                          FixedValueModifier(5))),
                      FixedIndexModifier(0, FixedIndexModifier(1,
                          FixedValueModifier(5))),
                      RandomIndexModifier(StrategyModifier(
                          Arrays(int32, Some(MaxLen))))}
        with(strategy, modifiers) ==
            {[FieldStrategy("f", strategy) EXCEPT !.modifiers = ms] :
                ms \in UNION {[1..k -> modifiers] : k \in 0..MaxMods}}
    IN with(int32, on_int)
       \cup with(Arrays(int32, None), on_array)
       \cup with(Arrays(int32, Some(MaxLen)), on_array)
       \cup with(Arrays(Arrays(int32, None), None), on_nested)

\* the module aliases under which the texts are rendered: the default of
\* the to_python methods and another one
Modules == {"strategies", "st"}

\* FieldStrategy.to_python, called as MsgStrategy.to_python calls it with
\* the module alias of its caller
render ==
    /\ run.pc = 0
    /\ run' = [run EXCEPT
                 !.lines = FieldStrategy_to_python(run.field, "msg",
                                                   run.module, 4),
                 !.pc = 1]
    /\ UNCHANGED <<defaults, custom, last, num, ct, strat, hl>>

\* the execution of the next statement: i is the variable i, n the length
\* that the last draw of i has read, drawn the indices drawn so far
execute ==
    /\ run.pc \in 1..Len(run.lines)
    /\ run.error = ""
    /\ ~run.rejected
    /\ LET s == statement(run.lines[run.pc])
           indices == [j \in 1..Len(s.indices) |->
                          IF s.indices[j] = "i" THEN run.i[1]
                          ELSE py_int(s.indices[j])]
           here == item(run.value, indices)
       IN \/ /\ s.kind \in {"draw", "assign"}
             /\ \E v \in (IF s.kind = "draw" THEN draws(s.arg)
                          ELSE {[t |-> "int", v |-> py_int(s.arg[1])]}) :
                  LET r == set_item(run.value, indices, v)
                  IN run' = [run EXCEPT
                               !.pc = @ + 1, !.error = r.error,
                               !.value = IF r.error = "" THEN r.value ELSE @]
          \/ /\ s.kind = "assume"
             /\ run' = [run EXCEPT
                          !.pc = @ + 1, !.error = here.error,
                          !.rejected = /\ here.error = ""
                                       /\ here.value.t = "int"
                                       /\ here.value.v = py_int(s.arg[1])]
          \/ /\ s.kind = "index"
             /\ IF here.error # "" \/ here.value.t = "int"
                THEN run' = [run EXCEPT
                               !.pc = @ + 1,
                               !.error = IF here.error # "" THEN here.error
                                         ELSE "TypeError"]
                ELSE \E i \in 0..Len(here.value.v) :
                        run' = [run EXCEPT !.pc = @ + 1, !.i = Some(i),
                                           !.n = Some(Len(here.value.v)),
                                           !.drawn = Append(@, i)]
    /\ UNCHANGED <<defaults, custom, last, num, ct, strat, hl>>

InitRun ==
    /\ defaults = make_builtins
    /\ custom = <<>>
    /\ last = [op |-> "init", arg |-> None, ret |-> "None"]
    /\ num = None
    /\ ct = None
    /\ strat = None
    /\ hl = None
    /\ \E field \in FieldStrategies, module \in Modules :
          run = [field |-> field, module |-> module, lines |-> <<>>, pc |-> 0,
                 value |-> None, i |-> None, n |-> None, drawn |-> <<>>,
                 error |-> "", rejected |-> FALSE]

NextRun == render \/ execute

SpecRun == InitRun /\ [][NextRun]_vars

(***************************************************************************)
(* Properties of the rendered field strategies                             *)
(***************************************************************************)
\* the run has executed every statement, without error or rejection
run_done ==
    /\ run.pc = Len(run.lines) + 1
    /\ run.error = ""
    /\ ~run.rejected

\* C15: the index that a random-index modifier draws for an array of length
\* n satisfies 0 <= i < n, for every length the base strategy generates,
\* so that a field with random-index modifiers on its elements alone never
\* addresses an element outside the array.
C15_ValidRandomIndex ==
    /\ run.i # None => (0 <= run.i[1] /\ run.i[1] < run.n[1])
    /\ (\A k \in 1..Len(run.field.modifiers) :
            /\ run.field.modifiers[k].kind = "RandomIndexModifier"
            /\ run.field.modifiers[k].modifier.kind
                  \in {"FixedValueModifier", "ExclusionModifier"})
          => run.error # "IndexError"

\* C16: the text of a FieldStrategy is the draw of the base strategy and
\* then the lines of each modifier, in the order of the list; so after a run
\* of an int field the value is that of the last assigning modifier (the
\* literal of a fixed-value, a draw of a strategy modifier), or the base
\* draw when there is none, no exclusion modifier met its literal in the
\* value of the step before it, and on a list each element has the literal
\* of the last fixed-value modifier at its index.
C16_ModifierOrder ==
    LET ms == run.field.modifiers
        block(k) == modifier_to_python(ms[k], <<"f">>, "msg", run.module, 4)
        start[k \in 1..(Len(ms) + 1)] ==
            IF k = 1 THEN 2 ELSE start[k - 1] + Len(block(k - 1))
        assigns(k) == ms[k].kind \in {"FixedValueModifier", "StrategyModifier"}
        before(k) == {j \in 1..(k - 1) : assigns(j)}
        max(S) == CHOOSE j \in S : \A l \in S : l <= j
        result(k) == IF ms[k].kind = "FixedValueModifier"
                     THEN {[t |-> "int", v |-> ms[k].value]}
                     ELSE draws(to_python(ms[k].strategy, run.module))
        after(k) == IF before(k) = {}
                    THEN draws(to_python(run.field.strategy, run.module))
                    ELSE result(max(before(k)))
    IN /\ run.pc >= 1 =>
             /\ Join(run.lines[1]) =
                   "    msg.f = draw(" \o
                   Join(to_python(run.field.strategy, run.module)) \o ")"
             /\ Len(run.lines) = start[Len(ms) + 1] - 1
             /\ \A k \in 1..Len(ms) :
                   SubSeq(run.lines, start[k], start[k + 1] - 1) = block(k)
       /\ (run_done /\ run.field.strategy.kind = "Reuse") =>
             /\ run.value \in after(Len(ms) + 1)
             /\ \A k \in 1..Len(ms) :
                   ms[k].kind = "ExclusionModifier" =>
                       after(k) # {[t |-> "int", v |-> ms[k].value]}
       /\ (/\ run_done
           /\ run.field.strategy.kind = "Arrays"
           /\ \A k \in 1..Len(ms) :
                 /\ ms[k].kind = "FixedIndexModifier"
                 /\ ms[k].modifier.kind = "FixedValueModifier") =>
             \A k \in 1..Len(ms) :
                 (\A l \in (k + 1)..Len(ms) : ms[l].index # ms[k].index) =>
                     run.value.v[ms[k].index + 1] =
                         [t |-> "int", v |-> ms[k].modifier.value]

\* an int field with two fixed-value modifiers has been generated: the
\* second value stands
C16_Witness ==
    /\ run_done
    /\ run.field.strategy.kind = "Reuse"
    /\ run.field.modifiers = <<FixedValueModifier(5), FixedValueModifier(7)>>
    /\ run.value = [t |-> "int", v |-> 7]

\* the references of a text to primitives of the property-testing runtime
\* that the strategies and modifiers render
Primitives ==
    {".integers(min_value=", ".lists(elements=", ".tuples(*[",
     ".binary(min_size=0, max_size=", ".integers(min_value=0, max_value=len("}

\* C21: in a text rendered with module alias A, every reference to a
\* primitive of the property-testing runtime is qualified with A, the
\* element strategy inside an array strategy of either kind included.
C21_ModuleAlias ==
    \A l \in 1..Len(run.lines) :
        \A k \in 1..Len(run.lines[l]) :
            run.lines[l][k] \in Primitives =>
                /\ k > 1
                /\ run.lines[l][k - 1] = run.module

\* the int value n of a run
PyInt(n) == [t |-> "int", v |-> n]

\* C22: the statement of an exclusion modifier leaves the field as the step
\* before it left it and only rejects the run when the field equals the
\* literal; that of a fixed-value modifier binds the field to the literal
\* and draws nothing; that of a strategy-override modifier binds the field
\* to a draw of its own strategy, whatever the field was.
C22_Step ==
    /\ (run.pc \in 1..Len(run.lines) /\ run'.pc = run.pc + 1
        /\ statement(run.lines[run.pc]).kind = "assume") =>
           run'.value = run.value
    /\ (/\ run.field.strategy.kind = "Reuse"
        /\ run.pc \in 2..Len(run.lines)
        /\ run'.pc = run.pc + 1) =>
          LET m == run.field.modifiers[run.pc - 1]
              line == run.lines[run.pc]
          IN /\ run'.error = ""
             /\ m.kind = "ExclusionModifier" =>
                   /\ Join(line) =
                         "    assume(msg.f != " \o ToString(m.value) \o ")"
                   /\ run'.value = run.value
                   /\ run'.rejected <=> (run.value = PyInt(m.value))
             /\ m.kind = "FixedValueModifier" =>
                   /\ Join(line) = "    msg.f = " \o ToString(m.value)
                   /\ run'.value = PyInt(m.value)
                   /\ ~run'.rejected
             /\ m.kind = "StrategyModifier" =>
                   /\ Join(line) =
                         "    msg.f = draw(" \o
                         Join(to_python(m.strategy, run.module)) \o ")"
                   /\ run'.value \in draws(to_python(m.strategy, run.module))
                   /\ ~run'.rejected

C22_BaseModifiers == [][C22_Step]_vars

\* a field overridden by a draw of 6..7 and then excluded from 0 has been
\* generated with the overriding draw 7, not the base draw
C22_Witness ==
    /\ run_done
    /\ run.field.strategy.kind = "Reuse"
    /\ run.field.modifiers =
          <<StrategyModifier(Integers(6, 7)), ExclusionModifier(0)>>
    /\ run.value = PyInt(7)

\* the subscripts of nested fixed-index modifiers, outer first, and the
\* modifier they enclose
RECURSIVE fixed_path(_)
fixed_path(modifier) ==
    IF modifier.kind = "FixedIndexModifier"
    THEN <<modifier.index>> \o fixed_path(modifier.modifier)
    ELSE <<>>

RECURSIVE fixed_inner(_)
fixed_inner(modifier) ==
    IF modifier.kind = "FixedIndexModifier" THEN fixed_inner(modifier.modifier)
    ELSE modifier

\* C23: the text of FixedIndex(a, FixedIndex(b, m)) on field f is the text
\* of m on f[a][b], the subscripts in the order outer to inner; and the
\* statement of a fixed-value modifier under fixed indices, when it runs
\* without error, binds exactly the element at these indices: every other
\* element, and the length of every array, is as before.
C23_Text ==
    LET ms == run.field.modifiers
        block(k) == modifier_to_python(ms[k], <<"f">>, "msg", run.module, 4)
        start[k \in 1..(Len(ms) + 1)] ==
            IF k = 1 THEN 2 ELSE start[k - 1] + Len(block(k - 1))
        subscripts(path) ==
            str_join("", [j \in 1..Len(path) |->
                             "[" \o ToString(path[j]) \o "]"])
    IN run.pc >= 1 =>
         \A k \in 1..Len(ms) :
            (/\ ms[k].kind = "FixedIndexModifier"
             /\ fixed_inner(ms[k]).kind = "FixedValueModifier") =>
               /\ Len(block(k)) = 1
               /\ Join(run.lines[start[k]]) =
                     "    msg.f" \o subscripts(fixed_path(ms[k])) \o " = "
                     \o ToString(fixed_inner(ms[k]).value)

C23_Step ==
    LET s == statement(run.lines[run.pc])
        idx == [j \in 1..Len(s.indices) |-> py_int(s.indices[j])]
        Paths == UNION {[1..d -> 0..(MaxLen + MaxSize)] : d \in 0..2}
        prefix(p, q) == Len(p) <= Len(q) /\ SubSeq(q, 1, Len(p)) = p
    IN (/\ run.pc \in 2..Len(run.lines)
        /\ run'.pc = run.pc + 1
        /\ s.kind = "assign"
        /\ s.indices # <<>>
        /\ \A j \in 1..Len(s.indices) : s.indices[j] # "i") =>
          IF run'.error # "" THEN run'.value = run.value
          ELSE /\ item(run'.value, idx) =
                     [error |-> "", value |-> PyInt(py_int(s.arg[1]))]
               /\ \A p \in Paths :
                     (~prefix(p, idx) /\ ~prefix(idx, p)) =>
                         item(run'.value, p) = item(run.value, p)
               /\ \A p \in Paths :
                     (prefix(p, idx) /\ p # idx) =>
                         /\ item(run'.value, p).value.t = item(run.value, p).value.t
                         /\ Len(item(run'.value, p).value.v) =
                               Len(item(run.value, p).value.v)

C23_FixedIndex == [](C23_Text) /\ [][C23_Step]_vars

\* a list of two lists of two elements has been generated with the literal
\* at [0][1] and the draws everywhere else
C23_Witness ==
    /\ run_done
    /\ run.field.modifiers =
          <<FixedIndexModifier(0, FixedIndexModifier(1, FixedValueModifier(5)))>>
    /\ run.value.t = "list"
    /\ run.value.v = <<[t |-> "list", v |-> <<PyInt(0), PyInt(5)>>],
                       [t |-> "list", v |-> <<PyInt(0), PyInt(0)>>]>>

\* C28: nested random-index modifiers use an index of their own each:
\* after RandomIndex(RandomIndex(m)) on f, with i drawn for f and then j
\* drawn for f[i], both inside their arrays, m has been applied to f[i][j].
C28_NestedRandomIndex ==
    (/\ run_done
     /\ run.field.modifiers =
           <<RandomIndexModifier(RandomIndexModifier(FixedValueModifier(5)))>>
     /\ item(run.value, run.drawn).error = "") =>
        item(run.value, run.drawn).value = PyInt(5)

\* C24: after a gen call the aliases of the recorded loop frames are
\* pairwise distinct, the frames of the left path standing first and those
\* of a right-hand path after them, each path outer to inner: a frame
\* iterates from the alias of the frame before it in its path, the first
\* frame of a path from the variable of the path.
C24_FreshAliases ==
    ct.condition # None =>
        LET left == ct.condition.field
            right == IF /\ ~ct.condition.is_inclusion_test
                        /\ ct.condition.value.node = "HplFieldExpression2"
                     THEN ct.condition.value.loops ELSE <<>>
            nl == Len(left.loops)
        IN /\ \A j, k \in 1..Len(ct.loops) :
                 j # k => ct.loops[j].alias # ct.loops[k].alias
           /\ ct_ok => Len(ct.loops) = nl + Len(right)
           /\ Len(ct.loops) >= nl
           /\ \A k \in 1..nl :
                 /\ ct.loops[k].fields = left.loops[k]
                 /\ ct.loops[k].variable =
                       IF k = 1 THEN "self._user_" \o left.variable
                       ELSE ct.loops[k - 1].alias
           /\ \A k \in (nl + 1)..Len(ct.loops) :
                 /\ ct.loops[k].fields = right[k - nl]
                 /\ ct.loops[k].variable =
                       IF k = nl + 1
                       THEN "self._user_" \o ct.condition.value.variable
                       ELSE ct.loops[k - 1].alias

\* gen has compiled a condition with loops in both paths
C24_Witness ==
    /\ ct_ok
    /\ Len(ct.condition.field.loops) = MaxLoops
    /\ Len(ct.loops) = MaxLoops + 1
    /\ ct.loops[MaxLoops + 1].variable = "self._user_n"

\* C25: in every state of the catalog the names of all strategies, the
\* built-ins, the defaults of the message types and the custom variants of
\* all message types, are pairwise distinct.
C25_DistinctNames ==
    LET entries ==
            {<<"defaults", t, 0>> : t \in DOMAIN defaults}
            \cup UNION {{<<"custom", t, k>> : k \in 1..Len(custom[t])} :
                           t \in DOMAIN custom}
        name(e) == IF e[1] = "defaults" THEN defaults[e[2]].name
                   ELSE custom[e[2]][e[3]].name
    IN \A e1, e2 \in entries : e1 # e2 => name(e1) # name(e2)

\* C26: the entries that the construction of the catalog registers stay
\* the built-in strategies in every later state, whatever make_defaults and
\* make_custom calls follow.
C26_BuiltinsStay ==
    \A t \in DOMAIN make_builtins :
        /\ t \in DOMAIN defaults
        /\ defaults[t] = make_builtins[t]

\* C27: a make_defaults call whose argument is not a dict, or has a value
\* that is not a dict, raises TypeError and leaves the defaults and the
\* custom lists as they were, also when other entries of the argument are
\* well formed; a call with a mapping of mappings does not raise TypeError.
C27_Step ==
    last'.op = "make_defaults" =>
        LET arg == last'.arg
            not_a_mapping ==
                \/ arg.py # "dict"
                \/ \E t \in DOMAIN arg.items : arg.items[t].py # "dict"
        IN /\ not_a_mapping <=> last'.ret = "TypeError"
           /\ not_a_mapping => (defaults' = defaults /\ custom' = custom)

C27_RejectsNonMapping == [][C27_Step]_vars

\* a dict with a well-formed entry for pkg/Msg and a value that is no dict
\* has been rejected, the default of pkg/Msg being the one built before
C27_Witness ==
    /\ last.op = "make_defaults"
    /\ last.ret = "TypeError"
    /\ last.arg.py = "dict"
    /\ last.arg.items[pkg_Msg] = PyDict(FieldsBuiltin)
    /\ pkg_Msg \in DOMAIN defaults
    /\ DOMAIN defaults[pkg_Msg].fields = DOMAIN FieldsUnknown
    /\ custom # <<>>

(***************************************************************************)
(* HarosLauncher: one launcher, the working directory of its process and   *)
(* the entries of its data directory (haros_dir) that it reads or writes   *)
(***************************************************************************)
\* the directory the process is started in, a directory that -c can name,
\* and a path that -c can name and that is no directory
WorkDir == "/work"
OtherDir == "/other"
MissingDir == "/missing"

\* haros_dir itself and its viz directory
HarosDir == "."
VizDir == "viz"

\* HarosLauncher.DIR_STRUCTURE by the paths below haros_dir: the entries
\* with a string (files), those with a dict (dirs), the keys of the outer
\* dict (top) and the entries of the dict of each key (nested)
DIR_STRUCTURE ==
    LET files == {"index.yaml", "configs.yaml", "parse_cache.json"}
        top == files \cup {"repositories", "export", "projects", "pyflwor"}
    IN [files |-> files,
        dirs |-> (top \ files) \cup {"projects/default"},
        top |-> top,
        nested |-> [k \in top |->
                      IF k = "projects" THEN {"projects/default"} ELSE {}]]

\* what a path of the file system is: nothing, a file with a text (the one
\* of DIR_STRUCTURE, another one, or a saved node cache), or a directory;
\* written tells that the launch at hand has written the file, or the files
\* of the directory
Absent == [kind |-> "absent", text |-> "", written |-> FALSE]
UserFile == [kind |-> "file", text |-> "user", written |-> FALSE]
PyFile(text) == [kind |-> "file", text |-> text, written |-> TRUE]
PyDir == [kind |-> "dir", text |-> "", written |-> FALSE]

\* the data directories a launcher can meet
FileSystems ==
    LET all == DIR_STRUCTURE.files \cup DIR_STRUCTURE.dirs
                 \cup {HarosDir, VizDir}
        fresh == [x \in all |-> Absent]
        used == [x \in all |->
                   IF x \in DIR_STRUCTURE.files THEN UserFile ELSE PyDir]
        partial == [x \in all |->
                      IF x = HarosDir THEN PyDir
                      ELSE IF x \in {"index.yaml", "parse_cache.json"}
                      THEN UserFile ELSE Absent]
    IN {fresh, used, partial,
        [fresh EXCEPT ![HarosDir] = UserFile],
        [partial EXCEPT !["projects"] = UserFile],
        [used EXCEPT !["index.yaml"] = PyDir, !["configs.yaml"] = Absent],
        [used EXCEPT !["projects/default"] = UserFile]}

\* the outcomes of _generate_dir(haros_dir, DIR_STRUCTURE, overwrite). A key
\* is in conflict when something exists at its path that is not a file for
\* a string entry, not a directory for a dict entry. Without a conflict
\* every key is handled: a file is written when overwrite holds or nothing
\* exists at its path, a directory is made when nothing exists there. The
\* order of the keys of the dict is not given by the source, so when some
\* key raises, any set of the other keys can have been handled before it,
\* and the raising key's own directory is made when the conflict is below it
generate_dir(fs, overwrite) ==
    LET S == DIR_STRUCTURE
        conflict(x) == IF x \in S.files THEN fs[x].kind = "dir"
                       ELSE fs[x].kind = "file"
        bad == {k \in S.top : conflict(k) \/ \E x \in S.nested[k] : conflict(x)}
        handled(keys, made) ==
            [x \in DOMAIN fs |->
                IF x \in S.files /\ x \in keys
                THEN IF overwrite \/ fs[x].kind = "absent"
                     THEN PyFile("default") ELSE fs[x]
                ELSE IF \/ x \in S.dirs /\ x \in keys \cup made
                        \/ \E k \in keys : x \in S.nested[k]
                THEN PyDir
                ELSE fs[x]]
    IN IF bad = {}
       THEN {[fs |-> handled(S.top, {}), error |-> ""]}
       ELSE {[fs |-> handled(keys, IF conflict(b) THEN {} ELSE {b}),
              error |-> "RuntimeError"] :
                keys \in SUBSET (S.top \ bad), b \in bad}

\* HarosLauncher._init_haros_dir; viz.install(force=True) makes the viz
\* directory and writes its files
init_haros_dir(fs, overwrite) ==
    IF fs[HarosDir].kind = "file"
    THEN {[fs |-> fs, error |-> "RuntimeError"]}
    ELSE {IF r.error = "" /\ (overwrite \/ r.fs[VizDir].kind = "absent")
          THEN [r EXCEPT !.fs[VizDir] = [PyDir EXCEPT !.written = TRUE]]
          ELSE r :
            r \in generate_dir([fs EXCEPT ![HarosDir] = PyDir], overwrite)}

\* the paths that held something when launch was called and that the
\* launch has written
rewritten(before, fs) ==
    {x \in DOMAIN fs : before[x].kind # "absent" /\ fs[x].written}

\* "if not self.initialised: self.initialised = self._init_haros_dir(...)"
initialise(h, overwrite) ==
    IF h.initialised THEN {h}
    ELSE {[h EXCEPT !.fs = r.fs,
                    !.initialised = (r.error = ""),
                    !.exc = r.error,
                    !.init_ran = TRUE,
                    !.init_rewritten = rewritten(h.before, r.fs),
                    !.inits = IF r.error = "" THEN @ + 1 ELSE @] :
            r \in init_haros_dir(h.fs, overwrite)}

\* the exceptions that the modules behind a runner can raise
RunnerErrors == {"KeyError", "RuntimeError", "ValueError"}

\* a command_analyse that initialises with overwrite=True
command_analyse_Overwrite(h) ==
    LET save_results(x) ==
            IF x.args.parse_nodes /\ ~x.args.no_cache
                  /\ x.fs["parse_cache.json"].kind # "dir"
            THEN [x EXCEPT !.fs["parse_cache.json"] = PyFile("cache")]
            ELSE x
    IN UNION {IF x.exc # "" THEN {x}
              ELSE IF x.fs["index.yaml"].kind # "file"
              THEN {[x EXCEPT !.exc = "ValueError"]}
              ELSE {[x EXCEPT !.exc = e] : e \in RunnerErrors}
                   \cup {[save_results(x) EXCEPT !.ret = "True"]} :
                x \in initialise(h, TRUE)}

\* HarosLauncher.command_analyse, without -d and -p: the run of the
\* HarosAnalyseRunner raises, or saves its results and returns True. Of
\* HarosAnalyseRunner._save_results the part on the data directory is kept:
\* with parse_nodes and use_cache the parsing cache is opened for writing,
\* an IOError being logged only
command_analyse(h) ==
    LET save_results(x) ==
            IF x.args.parse_nodes /\ ~x.args.no_cache
                  /\ x.fs["parse_cache.json"].kind # "dir"
            THEN [x EXCEPT !.fs["parse_cache.json"] = PyFile("cache")]
            ELSE x
    IN UNION {IF x.exc # "" THEN {x}
              ELSE IF x.fs["index.yaml"].kind # "file"
              THEN {[x EXCEPT !.exc = "ValueError"]}
              ELSE {[x EXCEPT !.exc = e] : e \in RunnerErrors}
                   \cup {[save_results(x) EXCEPT !.ret = "True"]} :
                x \in initialise(h, FALSE)}

\* HarosLauncher.command_viz, without -d: viz.serve returns or raises
command_viz(h) ==
    UNION {IF x.exc # "" THEN {x}
           ELSE IF x.fs[VizDir].kind # "dir"
           THEN {[x EXCEPT !.exc = "ValueError"]}
           ELSE {[x EXCEPT !.exc = e] : e \in RunnerErrors}
                \cup {[x EXCEPT !.ret = r] : r \in {"True", "False"}} :
             x \in initialise(h, FALSE)}

\* args.command(args): command_init, command_full ("command_analyse(args)
\* and command_viz(args)"), command_analyse, command_export (to a directory
\* outside the data directory) and command_viz
command(h) ==
    CASE h.args.command = "init" ->
            {IF x.exc = "" THEN [x EXCEPT !.ret = "True"] ELSE x :
                x \in initialise(h, TRUE)}
      [] h.args.command = "full" ->
            UNION {IF x.ret = "True" THEN command_viz([x EXCEPT !.ret = ""])
                   ELSE {x} :
                     x \in command_analyse(h)}
      [] h.args.command = "analyse" -> command_analyse(h)
      [] h.args.command = "export" ->
            UNION {IF x.exc # "" THEN {x}
                   ELSE {[x EXCEPT !.exc = e] : e \in RunnerErrors}
                        \cup {[x EXCEPT !.ret = "True"]} :
                     x \in initialise(h, FALSE)}
      [] h.args.command = "viz" -> command_viz(h)

\* the arguments parse_arguments returns
Arguments ==
    {[command |-> c, cwd |-> d, parse_nodes |-> n, no_cache |-> k] :
        c \in {"init", "full", "analyse", "export", "viz"},
        d \in {"", OtherDir, MissingDir}, n \in BOOLEAN, k \in BOOLEAN}
    \ {a \in [command : {"init", "export", "viz"},
              cwd : {"", OtherDir, MissingDir},
              parse_nodes : BOOLEAN, no_cache : BOOLEAN] :
         a.parse_nodes \/ a.no_cache}

\* launch up to "original_path = os.getcwd()"
launch_call(args) ==
    /\ hl.pc \in {"idle", "returned"}
    /\ LET fs == [x \in DOMAIN hl.fs |-> [hl.fs[x] EXCEPT !.written = FALSE]]
       IN hl' = [hl EXCEPT !.pc = "try", !.args = args,
                           !.original_path = hl.cwd, !.called_cwd = hl.cwd,
                           !.fs = fs, !.before = fs, !.exc = "",
                           !.caught = "", !.ret = "", !.ran_in = "",
                           !.init_ran = FALSE, !.init_rewritten = {}]
    /\ UNCHANGED <<defaults, custom, last, num, ct, strat, run>>

\* "if args.cwd: os.chdir(args.cwd)"
launch_chdir ==
    /\ hl.pc = "try"
    /\ hl' = IF hl.args.cwd = "" THEN [hl EXCEPT !.pc = "command"]
             ELSE IF hl.args.cwd = MissingDir
             THEN [hl EXCEPT !.pc = "finally", !.exc = "OSError"]
             ELSE [hl EXCEPT !.pc = "command", !.cwd = hl.args.cwd]
    /\ UNCHANGED <<defaults, custom, last, num, ct, strat, run>>

\* "return args.command(args)"
launch_command ==
    /\ hl.pc = "command"
    /\ \E x \in command(hl) :
          hl' = [x EXCEPT !.pc = "finally", !.ran_in = hl.cwd]
    /\ UNCHANGED <<defaults, custom, last, num, ct, strat, run>>

\* a launch that goes back to the original directory only when the
\* command has returned
launch_finally_OnReturn ==
    /\ hl.pc = "finally"
    /\ hl' = IF hl.exc \in {"KeyError", "RuntimeError"}
             THEN [hl EXCEPT !.pc = "returned", !.ret = "False",
                             !.caught = hl.exc, !.exc = ""]
             ELSE IF hl.exc # "" THEN [hl EXCEPT !.pc = "returned"]
             ELSE [hl EXCEPT !.pc = "returned", !.cwd = hl.original_path]
    /\ UNCHANGED <<defaults, custom, last, num, ct, strat, run>>

\* the except clauses and the finally clause of launch: launch returns the
\* command's result, returns False or lets the exception through
launch_finally ==
    /\ hl.pc = "finally"
    /\ hl' = IF hl.exc \in {"KeyError", "RuntimeError"}
             THEN [hl EXCEPT !.pc = "returned", !.ret = "False",
                             !.caught = hl.exc, !.exc = "",
                             !.cwd = hl.original_path]
             ELSE [hl EXCEPT !.pc = "returned", !.cwd = hl.original_path]
    /\ UNCHANGED <<defaults, custom, last, num, ct, strat, run>>

\* HarosLauncher.__init__, in a process started in WorkDir
InitLaunch ==
    /\ defaults = make_builtins
    /\ custom = <<>>
    /\ last = [op |-> "init", arg |-> None, ret |-> "None"]
    /\ num = None
    /\ ct = None
    /\ strat = None
    /\ run = None
    /\ \E fs \in FileSystems :
          hl = [pc |-> "idle", initialised |-> FALSE, cwd |-> WorkDir,
                fs |-> fs, args |-> None, original_path |-> "",
                called_cwd |-> WorkDir, before |-> fs, exc |-> "",
                caught |-> "", ret |-> "", ran_in |-> "",
                init_ran |-> FALSE, init_rewritten |-> {}, inits |-> 0]

NextLaunch ==
    \/ \E args \in Arguments : launch_call(args)
    \/ launch_chdir
    \/ launch_command
    \/ launch_finally

SpecLaunch == InitLaunch /\ [][NextLaunch]_vars

(***************************************************************************)
(* Properties of the launcher                                              *)
(***************************************************************************)
\* C29: when launch returns or raises, the working directory of the process
\* is the one it was when launch was called, whatever the command did and
\* whether or not -c changed the directory.
C29_CwdRestored ==
    hl.pc = "returned" => hl.cwd = hl.called_cwd

\* a command that ran in the directory of -c has raised an exception that
\* launch does not handle
C29_Witness ==
    /\ hl.pc = "returned"
    /\ hl.args.cwd = OtherDir
    /\ hl.ran_in = OtherDir
    /\ hl.exc = "ValueError"
    /\ hl.cwd = WorkDir

\* the file system holds every entry of DIR_STRUCTURE, as a file or as a
\* directory as the structure says
structure_complete(fs) ==
    /\ fs[HarosDir].kind = "dir"
    /\ \A x \in DIR_STRUCTURE.files : fs[x].kind = "file"
    /\ \A x \in DIR_STRUCTURE.dirs : fs[x].kind = "dir"

\* something stands where the structure expects a thing of another kind
structure_conflict(fs) ==
    \/ fs[HarosDir].kind = "file"
    \/ \E x \in DIR_STRUCTURE.files : fs[x].kind = "dir"
    \/ \E x \in DIR_STRUCTURE.dirs : fs[x].kind = "file"

====
